---- MODULE Spec2Model ----
(***************************************************************************)
(* A model of basebase: the rule-based authorization service               *)
(* (src/src/services/authorization.ts), the type registry                  *)
(* (GraphQLTypeManager, src/src/services/auth.ts lines 257-414, and the    *)
(* createType resolver of src/src/index.ts) and the generated CRUD         *)
(* resolvers (generateResolvers, src/src/schemaGenerator.ts lines 554-828).*)
(***************************************************************************)
EXTENDS Integers, Sequences, FiniteSets, TLC

VARIABLES
    rules,          \* the authorizationRules collection, in insertion order
    lastCheck,      \* the last checkPermission call: its arguments and result
    lastBuild,      \* what buildDynamicAbilityForUser built, when it was the
                    \* last call on the service; none after a rule operation
    graphqlTypes,   \* the graphqlTypes collection, in insertion order
    typesNameIndex, \* whether graphqlTypes carries the unique index on name
    uniqueIndexes,  \* the unique field indexes: a set of <<collection, field>>
    pc,             \* per request slot: the position of its createType call
    req,            \* per request slot: the caller and the input of the call
    res,            \* per request slot: the outcome of the call
    docs,           \* the document collections: collection name -> set of documents
    nextId,         \* how many ObjectIds the store has generated
    now,            \* the clock read by new Date()
    lastOp,         \* the last generated operation: its arguments and outcome
    schema,         \* the schema last generated from the type definitions
    apps,           \* the apps collection: owner, API key and its expiry
    projects,       \* the projects collection: owner, API key and its expiry
    nextKey,        \* how many API keys generateApiKey has produced
    lastKeyOp,      \* the last API-key operation or ApiKey request, its outcome
    verificationAttempts,  \* the verificationAttempts collection, by phone
    calls,          \* the verifyPhoneAndCreateUser calls in progress
    issued          \* the tokens returned, per phone and stored attempt

authVars == <<rules, lastCheck, lastBuild>>
regVars  == <<graphqlTypes, typesNameIndex, uniqueIndexes, pc, req, res>>
docVars  == <<docs, nextId, now, lastOp>>
compVars == <<schema>>
keyVars  == <<apps, projects, nextKey, lastKeyOp>>
verifyVars == <<verificationAttempts, calls, issued>>
vars     == <<rules, lastCheck, lastBuild, graphqlTypes, typesNameIndex, uniqueIndexes,
              pc, req, res, docs, nextId, now, lastOp, schema,
              apps, projects, nextKey, lastKeyOp,
              verificationAttempts, calls, issued>>

(***************************************************************************)
(* Values                                                                  *)
(***************************************************************************)
\* JavaScript's undefined, for a string-valued attribute that is absent.
Undefined == "undefined"

\* context.currentUser === null / a missing resource argument.
NoUser == [_id |-> "null", id |-> "null", currentProjectId |-> "null"]
NoResource == [_id |-> "null", id |-> "null", ownerId |-> "null",
               creator |-> "null", ProjectId |-> "null"]

Actions == {"manage", "create", "read", "update", "delete"}

\* src/src/services/authorization.ts lines 43-95: the rules createDefaultRules
\* inserts, in order.  inverted is absent (falsy) on all of them.
DefaultRules ==
    << [name |-> "user-manage-self", action |-> "manage", subject |-> "User",
        priority |-> 100, isActive |-> TRUE, inverted |-> FALSE],
       [name |-> "Project-manage-by-owner", action |-> "manage", subject |-> "Project",
        priority |-> 100, isActive |-> TRUE, inverted |-> FALSE],
       [name |-> "post-manage-by-creator", action |-> "manage", subject |-> "Post",
        priority |-> 100, isActive |-> TRUE, inverted |-> FALSE],
       [name |-> "authenticated-read-all", action |-> "read", subject |-> "all",
        priority |-> 50, isActive |-> TRUE, inverted |-> FALSE],
       [name |-> "authenticated-create-all", action |-> "create", subject |-> "all",
        priority |-> 50, isActive |-> TRUE, inverted |-> FALSE] >>

(***************************************************************************)
(* AuthorizationService: the rule store                                    *)
(***************************************************************************)
RECURSIVE SortedOrders(_, _)
\* Every order of the indexes S of rs that is non-increasing in priority:
\* sort({priority: -1}) leaves the order of equal priorities to the store.
SortedOrders(rs, S) ==
    IF S = {} THEN {<<>>}
    ELSE UNION { { <<i>> \o t : t \in SortedOrders(rs, S \ {i}) } :
                 i \in {j \in S : \A k \in S : rs[j].priority >= rs[k].priority} }

\* getRules() without its filter on isActive.
GetRulesAll(rs) ==
    { [n \in 1..Len(o) |-> rs[o[n]]] : o \in SortedOrders(rs, 1..Len(rs)) }

\* getRules(): find({isActive: true}).sort({priority: -1}); the set of the
\* sequences the store may return.
GetRules(rs) ==
    LET active == {i \in 1..Len(rs) : rs[i].isActive}
    IN  { [n \in 1..Len(o) |-> rs[o[n]]] : o \in SortedOrders(rs, active) }

(***************************************************************************)
(* AuthorizationService: the capability set                                *)
(***************************************************************************)
\* One registration made through AbilityBuilder.can / cannot.  conditions says
\* whether a conditions object was passed: the dynamic builder always passes
\* one (rule.conditions || {}).
RawRule(r) == [action |-> r.action, subject |-> r.subject,
               inverted |-> r.inverted, conditions |-> TRUE]

\* buildAbility(user): the five can(...) registrations of the static builder,
\* each with a conditions object.
BuildAbility(user) ==
    IF user = NoUser THEN <<>>
    ELSE [n \in 1..Len(DefaultRules) |-> RawRule(DefaultRules[n])]

\* The dynamic builder without its guard on a null user.
BuildDynamicNoGuard(user, sorted) == [n \in 1..Len(sorted) |-> RawRule(sorted[n])]

\* buildDynamicAbilityForUser(user), given the sequence getRules() returned.
BuildDynamicAbilityForUser(user, sorted) ==
    IF user = NoUser THEN <<>>
    ELSE [n \in 1..Len(sorted) |-> RawRule(sorted[n])]

\* ability.can(action, subject) for a subject given as a type name: the rules
\* for the action (or manage) and the subject (or all) are tried last
\* registered first; a rule with conditions matches a type name unless it is
\* inverted; the first match decides.
AbilityCan(ability, action, subject) ==
    LET relevant(i) == /\ ability[i].action \in {action, "manage"}
                       /\ ability[i].subject \in {subject, "all"}
        matches(i)  == relevant(i) /\ (~ability[i].conditions \/ ~ability[i].inverted)
    IN  \E i \in 1..Len(ability) :
            /\ matches(i)
            /\ ~ability[i].inverted
            /\ \A j \in (i+1)..Len(ability) : ~matches(j)

\* a?.toString() || b?.toString()
OrElse(a, b) == IF a # Undefined THEN a ELSE b

\* resource._id?.toString() || resource.id?.toString()
IdentOf(x) == OrElse(x._id, x.id)

\* checkPermission without its branch for the account type.
CheckPermissionNoUserBranch(coarse, action, subject, resource, user) ==
    IF ~coarse THEN FALSE
    ELSE IF resource = NoResource \/ user = NoUser THEN TRUE
    ELSE IF subject = "Project" /\ action \in {"update", "delete", "manage"}
         THEN resource.ownerId = IdentOf(user)
    ELSE IF subject = "Post" /\ action \in {"update", "delete", "manage"}
         THEN /\ resource.creator = IdentOf(user)
              /\ resource.ProjectId = user.currentProjectId
    ELSE IF resource.ProjectId # Undefined /\ user.currentProjectId # Undefined
         THEN resource.ProjectId = user.currentProjectId
    ELSE TRUE

\* checkPermission that goes on to the resource checks when ability.can
\* refuses.
CheckPermissionNoCoarse(coarse, action, subject, resource, user) ==
    IF resource = NoResource \/ user = NoUser THEN TRUE
    ELSE IF subject = "User" /\ action \in {"update", "delete", "manage"}
         THEN IdentOf(resource) = IdentOf(user)
    ELSE IF subject = "Project" /\ action \in {"update", "delete", "manage"}
         THEN resource.ownerId = IdentOf(user)
    ELSE IF subject = "Post" /\ action \in {"update", "delete", "manage"}
         THEN /\ resource.creator = IdentOf(user)
              /\ resource.ProjectId = user.currentProjectId
    ELSE IF resource.ProjectId # Undefined /\ user.currentProjectId # Undefined
         THEN resource.ProjectId = user.currentProjectId
    ELSE TRUE

\* checkPermission without the shortcut for a missing resource or principal.
CheckPermissionNoShortcut(coarse, action, subject, resource, user) ==
    IF ~coarse THEN FALSE
    ELSE IF subject = "User" /\ action \in {"update", "delete", "manage"}
         THEN IdentOf(resource) = IdentOf(user)
    ELSE IF subject = "Project" /\ action \in {"update", "delete", "manage"}
         THEN resource.ownerId = IdentOf(user)
    ELSE IF subject = "Post" /\ action \in {"update", "delete", "manage"}
         THEN /\ resource.creator = IdentOf(user)
              /\ resource.ProjectId = user.currentProjectId
    ELSE IF resource.ProjectId # Undefined /\ user.currentProjectId # Undefined
         THEN resource.ProjectId = user.currentProjectId
    ELSE TRUE

\* checkPermission whose Post branch compares the creator only.
CheckPermissionPostCreatorOnly(coarse, action, subject, resource, user) ==
    IF ~coarse THEN FALSE
    ELSE IF resource = NoResource \/ user = NoUser THEN TRUE
    ELSE IF subject = "User" /\ action \in {"update", "delete", "manage"}
         THEN IdentOf(resource) = IdentOf(user)
    ELSE IF subject = "Project" /\ action \in {"update", "delete", "manage"}
         THEN resource.ownerId = IdentOf(user)
    ELSE IF subject = "Post" /\ action \in {"update", "delete", "manage"}
         THEN resource.creator = IdentOf(user)
    ELSE IF resource.ProjectId # Undefined /\ user.currentProjectId # Undefined
         THEN resource.ProjectId = user.currentProjectId
    ELSE TRUE

\* checkPermission without its comparison of the projects.
CheckPermissionNoProject(coarse, action, subject, resource, user) ==
    IF ~coarse THEN FALSE
    ELSE IF resource = NoResource \/ user = NoUser THEN TRUE
    ELSE IF subject = "User" /\ action \in {"update", "delete", "manage"}
         THEN IdentOf(resource) = IdentOf(user)
    ELSE IF subject = "Project" /\ action \in {"update", "delete", "manage"}
         THEN resource.ownerId = IdentOf(user)
    ELSE IF subject = "Post" /\ action \in {"update", "delete", "manage"}
         THEN /\ resource.creator = IdentOf(user)
              /\ resource.ProjectId = user.currentProjectId
    ELSE TRUE

\* checkPermission(ability, action, subject, resource, user), with the coarse
\* grant ability.can(action, subject) passed as coarse.
CheckPermission(coarse, action, subject, resource, user) ==
    IF ~coarse THEN FALSE
    ELSE IF resource = NoResource \/ user = NoUser THEN TRUE
    ELSE IF subject = "User" /\ action \in {"update", "delete", "manage"}
         THEN IdentOf(resource) = IdentOf(user)
    ELSE IF subject = "Project" /\ action \in {"update", "delete", "manage"}
         THEN resource.ownerId = IdentOf(user)
    ELSE IF subject = "Post" /\ action \in {"update", "delete", "manage"}
         THEN /\ resource.creator = IdentOf(user)
              /\ resource.ProjectId = user.currentProjectId
    ELSE IF resource.ProjectId # Undefined /\ user.currentProjectId # Undefined
         THEN resource.ProjectId = user.currentProjectId
    ELSE TRUE

\* assertPermission returned without throwing.
NoError == <<"none">>

\* assertPermission(ability, action, subject, resource, user): the error it
\* throws, `Forbidden: Cannot ${action} ${subject}`, or none.
AssertPermission(coarse, action, subject, resource, user) ==
    IF ~CheckPermission(coarse, action, subject, resource, user)
    THEN <<"Forbidden: Cannot", action, subject>>
    ELSE NoError

(***************************************************************************)
(* Bounds and input sets                                                   *)
(***************************************************************************)
\* The most rules createRule adds to the default ones.
MaxRules == 1

RuleNameSeq == <<"r1", "r2", "r3">>
RuleNames == {RuleNameSeq[i] : i \in 1..MaxRules}

\* The rules createRule is called with.
RuleInputs ==
    [name : RuleNames, action : {"manage"}, subject : {"all"},
     priority : {10, 200}, isActive : {TRUE}, inverted : BOOLEAN]

\* The rules createRule is called with before capability sets are built:
\* grants and withdrawals of manage or update on Post, above and below the
\* seeded rules.
BuildRuleInputs ==
    [name : RuleNames, action : {"manage", "update"}, subject : {"Post"},
     priority : {10, 200}, isActive : {TRUE}, inverted : BOOLEAN]

\* The names updateRule and deleteRule are called with.
RuleNameArgs == RuleNames \cup {"user-manage-self"}

\* A principal the capability set is built for.
AbilityOwner == [_id |-> "u1", id |-> Undefined, currentProjectId |-> "P"]

NoBuild == [called |-> FALSE, user |-> NoUser, processed |-> <<>>,
            ability |-> <<>>, action |-> "read", subject |-> "all",
            coarse |-> FALSE]

NoCheck == [called |-> FALSE, builder |-> "dynamic", nullAbility |-> TRUE,
            action |-> "read", subject |-> "all", resource |-> NoResource,
            user |-> NoUser, coarse |-> FALSE, result |-> FALSE,
            thrown |-> NoError]

(***************************************************************************)
(* AuthorizationService: operations                                        *)
(***************************************************************************)
\* createRule(rule): insertOne under the unique index on name that
\* initialize() creates; a duplicate name is rejected by the store.
CreateRule(r) ==
    /\ \A i \in 1..Len(rules) : rules[i].name # r.name
    /\ rules' = Append(rules, r)
    /\ lastBuild' = NoBuild
    /\ UNCHANGED lastCheck

\* updateRule(name, {isActive}): findOneAndUpdate({name}, {$set: update}).
UpdateRule(name, active) ==
    /\ \E i \in 1..Len(rules) : rules[i].name = name
    /\ rules' = [i \in 1..Len(rules) |->
                    IF rules[i].name = name
                    THEN [rules[i] EXCEPT !.isActive = active]
                    ELSE rules[i]]
    /\ lastBuild' = NoBuild
    /\ UNCHANGED lastCheck

\* deleteRule(name): deleteOne({name}).
DeleteRule(name) ==
    /\ \E i \in 1..Len(rules) : rules[i].name = name
    /\ rules' = SelectSeq(rules, LAMBDA r : r.name # name)
    /\ lastBuild' = NoBuild
    /\ UNCHANGED lastCheck

\* What one call yields: a caller builds a capability set (statically or from
\* the rule store) for a principal or for null, and calls checkPermission
\* with it.
CheckOutcome(builder, nullAbility, a, s, r, u, sorted) ==
    LET owner   == IF nullAbility THEN NoUser ELSE AbilityOwner
        ability == IF builder = "static" THEN BuildAbility(owner)
                   ELSE BuildDynamicAbilityForUser(owner, sorted)
        coarse  == AbilityCan(ability, a, s)
    IN  [called |-> TRUE, builder |-> builder, nullAbility |-> nullAbility,
         action |-> a, subject |-> s, resource |-> r, user |-> u,
         coarse |-> coarse, result |-> CheckPermission(coarse, a, s, r, u),
         thrown |-> AssertPermission(coarse, a, s, r, u)]

\* The permission check of the request held in lastCheck, against the rule
\* store as it stands.
CheckPermissionCall ==
    /\ lastCheck' \in
         { CheckOutcome(lastCheck.builder, lastCheck.nullAbility,
                        lastCheck.action, lastCheck.subject,
                        lastCheck.resource, lastCheck.user, sorted) :
             sorted \in GetRules(rules) }
    /\ UNCHANGED <<rules, lastBuild>>

\* buildDynamicAbilityForUser(user) against the rule store as it stands,
\* followed by ability.can(action, subject) on what it built.  processed is
\* the sequence the loop ran over.
BuildDynamicAbilityCall(user, action, subject) ==
    /\ lastBuild' \in
         { [called |-> TRUE, user |-> user,
            processed |-> IF user = NoUser THEN <<>> ELSE sorted,
            ability |-> BuildDynamicAbilityForUser(user, sorted),
            action |-> action, subject |-> subject,
            coarse |-> AbilityCan(BuildDynamicAbilityForUser(user, sorted),
                                  action, subject)] :
             sorted \in GetRules(rules) }
    /\ UNCHANGED <<rules, lastCheck>>

\* The arguments of the permission checks.
IdValues == {Undefined, "u1", "u2"}
ResourceArgs ==
    [_id : IdValues, id : {Undefined, "u1"}, ownerId : {Undefined, "u1"},
     creator : {Undefined, "u1"}, ProjectId : {Undefined, "P", "Q"}]
        \cup {NoResource}
UserArgs ==
    [_id : IdValues, id : {Undefined, "u1"}, currentProjectId : {Undefined, "P"}]
        \cup {NoUser}
SubjectArgs == {"User", "Project", "Post", "Comment"}
CheckRequests ==
    [called : {FALSE}, builder : {"static", "dynamic"}, nullAbility : BOOLEAN,
     action : Actions, subject : SubjectArgs, resource : ResourceArgs,
     user : UserArgs, coarse : {FALSE}, result : {FALSE}, thrown : {NoError}]

\* The small argument sets used while the rule store changes.
FewResources == {NoResource,
                 [_id |-> "u1", id |-> Undefined, ownerId |-> Undefined,
                  creator |-> "u1", ProjectId |-> "P"]}
FewUsers == {NoUser, AbilityOwner}
FewSubjects == {"User", "Comment"}
FewRequests ==
    [called : {FALSE}, builder : {"static", "dynamic"}, nullAbility : BOOLEAN,
     action : Actions, subject : FewSubjects, resource : FewResources,
     user : FewUsers, coarse : {FALSE}, result : {FALSE}, thrown : {NoError}]

(***************************************************************************)
(* GraphQLTypeManager: the type registry                                   *)
(***************************************************************************)
\* Request slots: each runs one createType call at a time.
Procs == {1, 2}

\* The most type definitions the registry is filled with.
MaxTypes == 2

TypeNameArgs == {"Post", "Tag"}

\* RESERVED_FIELD_NAMES cut down to the two names the resolver checks itself.
ReservedIdCreatorOnly == {"id", "creator"}

\* const RESERVED_FIELD_NAMES (services/auth.ts line 269).
RESERVED_FIELD_NAMES == {"id", "creator", "createdAt", "updatedAt"}

\* The field definitions createType is called with, by field name.
FieldDef(name) ==
    [name |-> name,
     type |-> CASE name = "id" -> "ID"
                [] name = "creator" -> "User"
                [] name \in {"createdAt", "updatedAt"} -> "Date"
                [] name = "tags" -> "Tag"
                [] name = "ProjectId" -> "ID"
                [] name = "apiKeyExpiresAt" -> "Date"
                [] name = "meta" -> "JSON"
                [] OTHER -> "String",
     isList |-> (name \in {"tags", "media"}),
     unique |-> (name = "slug")]

FieldList(names) == [i \in 1..Len(names) |-> FieldDef(names[i])]

\* The field lists createType is called with.
FieldListArgs ==
    { FieldList(<<"title">>), FieldList(<<"slug", "tags">>),
      FieldList(<<"id", "title">>), FieldList(<<"title", "creator">>),
      FieldList(<<"createdAt">>), FieldList(<<"tags", "updatedAt">>) }

FieldNames(fields) == {fields[i].name : i \in 1..Len(fields)}

\* validateNoReservedFields(fields): the error list, as the set of the
\* reserved names found.
ValidateNoReservedFields(fields) == FieldNames(fields) \cap RESERVED_FIELD_NAMES

\* validateFieldReferences(type): validateNoReservedFields(type.fields).
ValidateFieldReferences(fields) == ValidateNoReservedFields(fields)

\* The callers of the type-management operations: nobody, or a user.
Callers == {"null", "u1"}

NoReq == [user |-> "null", name |-> "", fields |-> <<>>]

TypeNames(types) == {types[i].name : i \in 1..Len(types)}

\* The types getDynamicSchema adds itself; MaxTypes bounds the others.
DefaultTypeNames == {"User", "App"}

\* GraphQLTypeManager.initialize(): createIndex({name: 1}, {unique: true}) on
\* graphqlTypes; the store refuses to build it over duplicate names.
Initialize ==
    /\ ~typesNameIndex
    /\ \A i, j \in 1..Len(graphqlTypes) :
           graphqlTypes[i].name = graphqlTypes[j].name => i = j
    /\ typesNameIndex' = TRUE
    /\ UNCHANGED <<graphqlTypes, uniqueIndexes, pc, req, res>>

\* createType up to its first store call: the authentication check, the
\* resolver's own checks for "id" and "creator", validateFieldReferences.
CreateTypeStart(p, user, name, fields) ==
    /\ pc[p] = "idle"
    /\ req' = [req EXCEPT ![p] = [user |-> user, name |-> name, fields |-> fields]]
    /\ IF user = "null"
       THEN /\ pc' = [pc EXCEPT ![p] = "done"]
            /\ res' = [res EXCEPT ![p] = "AuthenticationRequired"]
       ELSE IF "id" \in FieldNames(fields) \/ "creator" \in FieldNames(fields)
       THEN /\ pc' = [pc EXCEPT ![p] = "done"]
            /\ res' = [res EXCEPT ![p] = "ValidationError"]
       ELSE IF ValidateFieldReferences(fields) # {}
       THEN /\ pc' = [pc EXCEPT ![p] = "done"]
            /\ res' = [res EXCEPT ![p] = "ValidationError"]
       ELSE /\ pc' = [pc EXCEPT ![p] = "insert"]
            /\ res' = [res EXCEPT ![p] = "pending"]
    /\ UNCHANGED <<graphqlTypes, typesNameIndex, uniqueIndexes>>

\* addGraphQLType: typesCollection.insertOne(typeWithDefaults).  Only a unique
\* index on name makes the store reject a second definition of a name.
AddGraphQLTypeInsert(p) ==
    /\ pc[p] = "insert"
    /\ IF typesNameIndex /\ req[p].name \in TypeNames(graphqlTypes)
       THEN /\ pc' = [pc EXCEPT ![p] = "done"]
            /\ res' = [res EXCEPT ![p] = "DuplicateKey"]
            /\ UNCHANGED graphqlTypes
       ELSE /\ Cardinality({i \in 1..Len(graphqlTypes) :
                              graphqlTypes[i].name \notin DefaultTypeNames}) < MaxTypes
            /\ graphqlTypes' = Append(graphqlTypes,
                                      [name |-> req[p].name, fields |-> req[p].fields])
            /\ pc' = [pc EXCEPT ![p] = "index"]
            /\ UNCHANGED res
    /\ UNCHANGED <<typesNameIndex, uniqueIndexes, req>>

\* type.name.toLowerCase(): the collection addGraphQLType indexes.
LowerCase(name) == CASE name = "Post" -> "post"
                     [] name = "Tag" -> "tag"
                     [] name = "User" -> "user"
                     [] OTHER -> name

\* addGraphQLType: createIndex({[field.name]: 1}, {unique: true}) for the
\* fields marked unique; createType then returns true.
AddGraphQLTypeIndexes(p) ==
    /\ pc[p] = "index"
    /\ uniqueIndexes' = uniqueIndexes \cup
           { <<LowerCase(req[p].name), req[p].fields[i].name>> :
               i \in {j \in 1..Len(req[p].fields) : req[p].fields[j].unique} }
    /\ pc' = [pc EXCEPT ![p] = "done"]
    /\ res' = [res EXCEPT ![p] = "true"]
    /\ UNCHANGED <<graphqlTypes, typesNameIndex, req>>

\* The most fields createFieldOnType lets a type definition grow to.
MaxFields == 3

\* The fields createFieldOnType is called with.
FieldArgs == {"title", "id", "updatedAt", "tags"}

\* typesCollection.findOne({name}) / updateOne({name}, ...): the first stored
\* definition of the name, 0 when there is none.
FirstByName(types, name) ==
    IF name \in TypeNames(types)
    THEN CHOOSE i \in 1..Len(types) :
             /\ types[i].name = name
             /\ \A j \in 1..(i - 1) : types[j].name # name
    ELSE 0

\* createFieldOnType up to its store write: the authentication check, the
\* checks for "id" and "creator", getGraphQLTypeByName, validateFieldReferences
\* on the extended field list.
CreateFieldOnTypeStart(p, user, name, field) ==
    LET i == FirstByName(graphqlTypes, name)
        fields == IF i = 0 THEN <<>> ELSE Append(graphqlTypes[i].fields, field)
        fail(e) == /\ pc' = [pc EXCEPT ![p] = "done"]
                   /\ res' = [res EXCEPT ![p] = e]
    IN  /\ pc[p] = "idle"
        /\ i # 0 => Len(graphqlTypes[i].fields) < MaxFields
        /\ req' = [req EXCEPT ![p] = [user |-> user, name |-> name, fields |-> fields]]
        /\ IF user = "null" THEN fail("AuthenticationRequired")
           ELSE IF field.name \in {"id", "creator"} THEN fail("ValidationError")
           ELSE IF i = 0 THEN fail("TypeNotFound")
           ELSE IF ValidateFieldReferences(fields) # {} THEN fail("ValidationError")
           ELSE /\ pc' = [pc EXCEPT ![p] = "update"]
                /\ res' = [res EXCEPT ![p] = "pending"]
        /\ UNCHANGED <<graphqlTypes, typesNameIndex, uniqueIndexes>>

\* updateGraphQLType: validateNoReservedFields(update.fields), then
\* typesCollection.updateOne({name}, {$set: {fields, updatedAt}}).
UpdateGraphQLTypeSet(p) ==
    LET i == FirstByName(graphqlTypes, req[p].name)
    IN  /\ pc[p] = "update"
        /\ IF ValidateNoReservedFields(req[p].fields) # {}
           THEN /\ pc' = [pc EXCEPT ![p] = "done"]
                /\ res' = [res EXCEPT ![p] = "ValidationError"]
                /\ UNCHANGED graphqlTypes
           ELSE /\ graphqlTypes' =
                      IF i = 0 THEN graphqlTypes
                      ELSE [graphqlTypes EXCEPT ![i].fields = req[p].fields]
                /\ pc' = [pc EXCEPT ![p] = "reindex"]
                /\ UNCHANGED res
        /\ UNCHANGED <<typesNameIndex, uniqueIndexes, req>>

\* updateGraphQLType: createIndex on the collection typeName.toLowerCase() for
\* the unique fields of the update; createFieldOnType then returns true.
UpdateGraphQLTypeIndexes(p) ==
    /\ pc[p] = "reindex"
    /\ uniqueIndexes' = uniqueIndexes \cup
           { <<LowerCase(req[p].name), req[p].fields[i].name>> :
               i \in {j \in 1..Len(req[p].fields) : req[p].fields[j].unique} }
    /\ pc' = [pc EXCEPT ![p] = "done"]
    /\ res' = [res EXCEPT ![p] = "true"]
    /\ UNCHANGED <<graphqlTypes, typesNameIndex, req>>

\* The response is sent; the slot takes the next request.
Respond(p) ==
    /\ pc[p] = "done"
    /\ pc' = [pc EXCEPT ![p] = "idle"]
    /\ req' = [req EXCEPT ![p] = NoReq]
    /\ res' = [res EXCEPT ![p] = "none"]
    /\ UNCHANGED <<graphqlTypes, typesNameIndex, uniqueIndexes>>

(***************************************************************************)
(* The document store and the request context                              *)
(***************************************************************************)
\* The most documents the generated create operations insert.
MaxDocs == 1

\* The latest reading of the clock.
MaxTime == 2

\* The ObjectIds insertOne generates, in order.
DocIdSeq == <<"a1", "a2", "a3", "a4">>

\* Identifier strings that are no 24-character hex string.
MalformedIds == {"xyz"}

\* new ObjectId(s) throws for these and converts the others.
ObjectIdValid(s) == s \notin MalformedIds

\* The registry the generated schema is compiled from: the User type of
\* getDynamicSchema (index.ts lines 1297-1312, its name field) and a Post type
\* defined through createType.
UserType == [name |-> "User", fields |-> FieldList(<<"name">>)]
PostType == [name |-> "Post", fields |-> FieldList(<<"slug", "ProjectId", "tags">>)]
DispatchTypes == <<UserType, PostType>>

TypeByName(types, T) == types[CHOOSE i \in 1..Len(types) : types[i].name = T]

\* const collectionName = `${typeName.toLowerCase()}s` (schemaGenerator.ts line 556).
CollectionName(T) == CASE T = "User" -> "users"
                       [] T = "Post" -> "posts"
                       [] T = "Tag" -> "tags"
                       [] OTHER -> T

Collections == {"users", "posts"}

DocKeys == {"_id", "creator", "createdAt", "updatedAt", "name", "slug",
            "ProjectId", "tags", "media", "phone"}

\* The value of a document attribute that was never set.
Absent(k) == CASE k \in {"createdAt", "updatedAt"} -> -1
               [] k \in {"tags", "media"} -> <<>>
               [] OTHER -> Undefined

UserDoc(id, n) ==
    [_id |-> id, creator |-> Undefined, createdAt |-> 0, updatedAt |-> 0,
     name |-> n, slug |-> Undefined, ProjectId |-> Undefined, tags |-> <<>>,
     media |-> <<>>, phone |-> Undefined]

\* The Authorization header of a request: none, or a Bearer token naming a
\* user and a project.
NoToken == [userId |-> "null", projectId |-> "null"]
Tokens == {NoToken, [userId |-> "u1", projectId |-> "P"],
           [userId |-> "u2", projectId |-> "Q"]}

\* The context function of startServer with getUserFromToken: the user of the
\* token, with currentProjectId, or null.
CurrentUser(tok) ==
    IF tok = NoToken THEN NoUser
    ELSE IF \E d \in docs["users"] : d._id = tok.userId
    THEN [_id |-> tok.userId, id |-> Undefined, currentProjectId |-> tok.projectId]
    ELSE NoUser

\* The fields a resource shows to checkPermission.
AsResource(d) == [_id |-> d._id, id |-> Undefined, ownerId |-> Undefined,
                  creator |-> d.creator, ProjectId |-> d.ProjectId]

(***************************************************************************)
(* generateResolvers: the generated operations                             *)
(***************************************************************************)
\* The scalar names the resolvers do not convert to ObjectId.
ResolverScalars == {"ID", "String", "Int", "Float", "Boolean", "Date"}

FieldOf(type, key) ==
    type.fields[CHOOSE i \in 1..Len(type.fields) : type.fields[i].name = key]

KnownKeys(type, input) == DOMAIN input \cap FieldNames(type.fields)

\* Whether building processedInput throws: a reference field holding a
\* malformed identifier.
ProcessedInputThrows(type, input) ==
    \E k \in KnownKeys(type, input) :
        LET f == FieldOf(type, k)
        IN  /\ f.type \notin ResolverScalars
            /\ IF f.isList
               THEN \E n \in 1..Len(input[k]) : ~ObjectIdValid(input[k][n])
               ELSE ~ObjectIdValid(input[k])

\* processedInput: the input keys that name a field of the type.
ProcessedInput(type, input) == [k \in KnownKeys(type, input) |-> input[k]]

\* { ...processedInput, creator, createdAt: now, updatedAt: now } with the _id
\* insertOne gives it.
NewDoc(processed, id, creator, t) ==
    [k \in DocKeys |->
        IF k = "_id" THEN id
        ELSE IF k = "creator" THEN creator
        ELSE IF k \in {"createdAt", "updatedAt"} THEN t
        ELSE IF k \in DOMAIN processed THEN processed[k]
        ELSE Absent(k)]

\* $set: { ...processedInput, updatedAt: now } applied to a document.
SetFields(d, processed, t) ==
    [k \in DocKeys |->
        IF k = "updatedAt" THEN t
        ELSE IF k \in DOMAIN processed THEN processed[k]
        ELSE d[k]]

InSeq(x, sq) == \E n \in 1..Len(sq) : sq[n] = x

\* $addToSet / $pull of one item on the array field, with $set updatedAt.
AddToSet(d, field, item, t) ==
    [d EXCEPT ![field] = IF InSeq(item, @) THEN @ ELSE Append(@, item),
              !["updatedAt"] = t]
Pull(d, field, item, t) ==
    [d EXCEPT ![field] = SelectSeq(@, LAMBDA x : x # item),
              !["updatedAt"] = t]

NoOp == [op |-> "none", user |-> NoUser, typ |-> "", id |-> Undefined,
         uniqueArgs |-> {}, outcome |-> "none", ret |-> "none", retDocs |-> {},
         accesses |-> 0, time |-> 0, newId |-> Undefined,
         field |-> Undefined, item |-> Undefined]

Op(op, user, T, id, outcome, ret, retDocs, accesses) ==
    [op |-> op, user |-> user, typ |-> T, id |-> id, uniqueArgs |-> {},
     outcome |-> outcome, ret |-> ret, retDocs |-> retDocs,
     accesses |-> accesses, time |-> now, newId |-> Undefined,
     field |-> Undefined, item |-> Undefined]

Matching(T, id) == {d \in docs[CollectionName(T)] : d._id = id}

\* The list fields of a type that get add/remove mutations.
ListFields(type) ==
    {type.fields[i].name : i \in {j \in 1..Len(type.fields) :
        type.fields[j].isList /\ type.fields[j].name \notin RESERVED_FIELD_NAMES}}

\* The fields of a type declared unique.
UniqueFields(type) ==
    {type.fields[i].name : i \in {j \in 1..Len(type.fields) : type.fields[j].unique}}

\* The arguments the requests carry.
IdArgs == {"a1", "a2", "xyz"}
ItemArgs == {"g1", "xyz"}
QueryTypes == {"User", "Post"}
MutableTypes == {"Post"}
CreateInputs(T) ==
    IF T = "User" THEN { [name |-> "n1"] }
    ELSE { [slug |-> "s1", ProjectId |-> "P"],
           [slug |-> "s1", ProjectId |-> "Q", id |-> "a9", creator |-> "u9",
            createdAt |-> 0, updatedAt |-> 0],
           [tags |-> <<"xyz">>] }
UpdateInputs == { [slug |-> "s2", creator |-> "u9", createdAt |-> 0] }
UniqueArgValue == "s1"
Filters == {<<>>, [slug |-> "s1"]}

\* Time passes between requests.
Tick ==
    /\ now < MaxTime
    /\ now' = now + 1
    /\ UNCHANGED <<docs, nextId, lastOp>>

\* Query get<T>.  The schema declares get<T>(id: ID!): a request without id,
\* or with any other argument, fails GraphQL validation and reaches no
\* resolver.  The resolver has no check of context.currentUser.
GetT(tok, T, id, uniqueArgs) ==
    LET user == CurrentUser(tok)
        rejected == id = Undefined \/ uniqueArgs # {}
        found == Matching(T, id)
        base == IF rejected
                THEN Op("get", user, T, id, "GraphQLError", "none", {}, 0)
                ELSE IF ~ObjectIdValid(id)
                THEN Op("get", user, T, id, "BSONError", "none", {}, 0)
                ELSE Op("get", user, T, id, "ok",
                        IF found = {} THEN "null" ELSE "doc", found, 1)
    IN  /\ lastOp' = [base EXCEPT !.uniqueArgs = uniqueArgs]
        /\ UNCHANGED <<docs, nextId, now>>

\* Query get<T>s with a filter on one field, or none.  No check of
\* context.currentUser.
GetTs(tok, T, filter) ==
    LET user == CurrentUser(tok)
        found == {d \in docs[CollectionName(T)] :
                     \A k \in DOMAIN filter : d[k] = filter[k]}
    IN  /\ lastOp' = Op("getAll", user, T, Undefined, "ok", "list", found, 1)
        /\ UNCHANGED <<docs, nextId, now>>

\* Mutation create<T>.
CreateT(tok, T, input) ==
    LET user == CurrentUser(tok)
        type == TypeByName(graphqlTypes, T)
        id == DocIdSeq[nextId + 1]
        doc == NewDoc(ProcessedInput(type, input), id, user._id, now)
        c == CollectionName(T)
    IN  IF user = NoUser
        THEN /\ lastOp' = Op("create", user, T, Undefined,
                             "AuthenticationRequired", "none", {}, 0)
             /\ UNCHANGED <<docs, nextId, now>>
        ELSE IF ProcessedInputThrows(type, input)
        THEN /\ lastOp' = Op("create", user, T, Undefined, "BSONError", "none",
                             {}, 0)
             /\ UNCHANGED <<docs, nextId, now>>
        ELSE IF \E ix \in uniqueIndexes, d \in docs[c] :
                    /\ ix[1] = c /\ ix[2] \in DOMAIN doc
                    /\ doc[ix[2]] # Undefined /\ d[ix[2]] = doc[ix[2]]
        THEN /\ lastOp' = Op("create", user, T, Undefined, "DuplicateKey", "none",
                             {}, 1)
             /\ UNCHANGED <<docs, nextId, now>>
        ELSE /\ nextId < MaxDocs
             /\ docs' = [docs EXCEPT ![c] = @ \cup {doc}]
             /\ nextId' = nextId + 1
             /\ lastOp' = [Op("create", user, T, Undefined, "ok", "doc", {doc}, 1)
                              EXCEPT !.newId = id]
             /\ UNCHANGED now

\* One findOneAndUpdate of the generated mutations: the matched document is
\* replaced by its changed form, after, and returned.
FindOneAndUpdate(op, user, T, id, after) ==
    LET c == CollectionName(T)
        found == Matching(T, id)
    IN  /\ docs' = [docs EXCEPT ![c] = (@ \ found) \cup after]
        /\ lastOp' = Op(op, user, T, id, "ok",
                        IF found = {} THEN "null" ELSE "doc", after, 1)
        /\ UNCHANGED <<nextId, now>>

\* findOneAndUpdate of add<T><Field> / remove<T><Field>: the same call, for
\* the array field and the item named in the request.
FindOneAndUpdateItem(op, user, T, id, field, itemId, after) ==
    LET c == CollectionName(T)
        found == Matching(T, id)
    IN  /\ docs' = [docs EXCEPT ![c] = (@ \ found) \cup after]
        /\ lastOp' = [Op(op, user, T, id, "ok",
                         IF found = {} THEN "null" ELSE "doc", after, 1)
                         EXCEPT !.field = field, !.item = itemId]
        /\ UNCHANGED <<nextId, now>>

\* A mutation that removes the matched documents and then raises.
FailedAfterWrite(op, user, T, id, outcome) ==
    /\ lastOp' = Op(op, user, T, id, outcome, "none", {}, 0)
    /\ docs' = [docs EXCEPT ![CollectionName(T)] = @ \ Matching(T, id)]
    /\ UNCHANGED <<nextId, now>>

\* A generated operation that throws before its store call.
Failed(op, user, T, id, outcome) ==
    /\ lastOp' = Op(op, user, T, id, outcome, "none", {}, 0)
    /\ UNCHANGED <<docs, nextId, now>>

\* Mutation update<T>.
UpdateT(tok, T, id, input) ==
    LET user == CurrentUser(tok)
        type == TypeByName(graphqlTypes, T)
        processed == ProcessedInput(type, input)
    IN  IF user = NoUser THEN Failed("update", user, T, id, "AuthenticationRequired")
        ELSE IF ProcessedInputThrows(type, input) \/ ~ObjectIdValid(id)
        THEN Failed("update", user, T, id, "BSONError")
        ELSE FindOneAndUpdate("update", user, T, id,
                              {SetFields(d, processed, now) : d \in Matching(T, id)})

\* Mutation delete<T>.
DeleteT(tok, T, id) ==
    LET user == CurrentUser(tok)
        c == CollectionName(T)
        found == Matching(T, id)
    IN  IF user = NoUser THEN Failed("delete", user, T, id, "AuthenticationRequired")
        ELSE IF ~ObjectIdValid(id) THEN Failed("delete", user, T, id, "BSONError")
        ELSE /\ docs' = [docs EXCEPT ![c] = @ \ found]
             /\ lastOp' = Op("delete", user, T, id, "ok",
                             IF Cardinality(found) = 1 THEN "true" ELSE "false",
                             {}, 1)
             /\ UNCHANGED <<nextId, now>>

\* Mutations add<T><Field> and remove<T><Field> of a list field.
AddTField(tok, T, field, id, itemId) ==
    LET user == CurrentUser(tok)
    IN  IF user = NoUser THEN Failed("add", user, T, id, "AuthenticationRequired")
        ELSE IF ~ObjectIdValid(id) \/ ~ObjectIdValid(itemId)
        THEN Failed("add", user, T, id, "BSONError")
        ELSE FindOneAndUpdateItem("add", user, T, id, field, itemId,
                              {AddToSet(d, field, itemId, now) : d \in Matching(T, id)})

RemoveTField(tok, T, field, id, itemId) ==
    LET user == CurrentUser(tok)
    IN  IF user = NoUser THEN Failed("remove", user, T, id, "AuthenticationRequired")
        ELSE IF ~ObjectIdValid(id) \/ ~ObjectIdValid(itemId)
        THEN Failed("remove", user, T, id, "BSONError")
        ELSE FindOneAndUpdateItem("remove", user, T, id, field, itemId,
                              {Pull(d, field, itemId, now) : d \in Matching(T, id)})

(***************************************************************************)
(* API keys: generateAppApiKey, revokeAppApiKey, validateApiKey            *)
(***************************************************************************)
\* The most keys generateApiKey produces.
MaxKeys == 2

\* crypto.randomBytes(32): the keys generateApiKey returns, in order.
KeySeq == <<"k1", "k2", "k3">>

\* apiKeyExpiresAt is set one year after the key is made; the unit of the
\* clock is the year.
KeyLifetime == 1

NoKey == "null"
NoAuth == [userId |-> "null", ProjectId |-> "null"]
NoKeyOp == [op |-> "none", arg |-> "", outcome |-> "none", auth |-> NoAuth,
            currentUser |-> "null"]

\* The collections as seeded: an app of u1 without a key, and a project of
\* u1 holding the key scripts/addApiKeys.ts gave it.
KeyInit ==
    /\ apps = [a \in {"a1"} |->
                 [creator |-> "u1", apiKey |-> NoKey, apiKeyExpiresAt |-> 0]]
    /\ projects = {[_id |-> "P", creator |-> "u1", apiKey |-> "pk",
                    apiKeyExpiresAt |-> 1 + KeyLifetime]}
    /\ nextKey = 0
    /\ lastKeyOp = NoKeyOp

KeyCallers == {"null", "u1", "u2"}
AppIdArgs == {"a1", "a2", "xyz"}
KeyArgs == {"k1", "k2", "pk", "bad"}

\* The app findOne({_id: new ObjectId(appId), creator}) returns, if any.
OwnedApp(user, appId) == appId \in DOMAIN apps /\ apps[appId].creator = user

KeyOp(op, arg, outcome) == [NoKeyOp EXCEPT !.op = op, !.arg = arg, !.outcome = outcome]

\* The checks generateAppApiKey and revokeAppApiKey make before their write.
KeyOpError(user, appId) ==
    IF user = "null" THEN "AuthenticationRequired"
    ELSE IF ~ObjectIdValid(appId) THEN "BSONError"
    ELSE IF ~OwnedApp(user, appId) THEN "AppNotFound"
    ELSE "none"

\* Mutation generateAppApiKey(appId).
GenerateAppApiKey(user, appId) ==
    LET e == KeyOpError(user, appId)
    IN  IF e # "none"
        THEN /\ lastKeyOp' = KeyOp("generate", appId, e)
             /\ UNCHANGED <<apps, projects, nextKey>>
        ELSE /\ nextKey < MaxKeys
             /\ nextKey' = nextKey + 1
             /\ apps' = [apps EXCEPT ![appId].apiKey = KeySeq[nextKey + 1],
                                     ![appId].apiKeyExpiresAt = now + KeyLifetime]
             /\ lastKeyOp' = KeyOp("generate", appId, "ok")
             /\ UNCHANGED projects

\* Mutation revokeAppApiKey(appId).
RevokeAppApiKey(user, appId) ==
    LET e == KeyOpError(user, appId)
    IN  IF e # "none"
        THEN /\ lastKeyOp' = KeyOp("revoke", appId, e)
             /\ UNCHANGED <<apps, projects, nextKey>>
        ELSE /\ apps' = [apps EXCEPT ![appId].apiKey = NoKey,
                                     ![appId].apiKeyExpiresAt = 0]
             /\ lastKeyOp' = KeyOp("revoke", appId, "ok")
             /\ UNCHANGED <<projects, nextKey>>

\* A validateApiKey whose filter lost its apiKey term.
ValidateApiKeyByExpiry(apiKey) ==
    LET found == {p \in projects : p.apiKeyExpiresAt > now}
    IN  IF found = {} THEN NoAuth
        ELSE LET p == CHOOSE q \in found : TRUE
             IN  [userId |-> p.creator, ProjectId |-> p._id]

\* AuthService.validateApiKey: projects.findOne({apiKey, apiKeyExpiresAt:
\* {$gt: new Date()}}).
ValidateApiKey(apiKey) ==
    LET found == {p \in projects : p.apiKey = apiKey /\ p.apiKeyExpiresAt > now}
    IN  IF found = {} THEN NoAuth
        ELSE LET p == CHOOSE q \in found : TRUE
             IN  [userId |-> p.creator, ProjectId |-> p._id]

\* The context function for a request with the header 'ApiKey <key>'.
ApiKeyRequest(apiKey) ==
    LET auth == ValidateApiKey(apiKey)
        user == IF auth # NoAuth /\ \E d \in docs["users"] : d._id = auth.userId
                THEN auth.userId ELSE "null"
    IN  /\ lastKeyOp' = [op |-> "request", arg |-> apiKey, outcome |-> "ok",
                         auth |-> auth, currentUser |-> user]
        /\ UNCHANGED <<apps, projects, nextKey>>

(***************************************************************************)
(* generateSchema: the schema compiled from the type definitions           *)
(***************************************************************************)
\* The characters of the field names the generator capitalizes; the literals
\* and type names of its templates are kept whole.
Spell(s) ==
    CASE s = "tags" -> <<"t", "a", "g", "s">>
      [] s = "media" -> <<"m", "e", "d", "i", "a">>
      [] OTHER -> <<s>>

\* c.toUpperCase() of one character.
ToUpperCase(c) ==
    CASE c = "t" -> "T" [] c = "m" -> "M" [] c = "s" -> "S" [] c = "n" -> "N"
      [] c = "p" -> "P" [] OTHER -> c

\* name.charAt(0).toUpperCase() + name.slice(1)
Capitalized(w) == IF w = <<>> THEN w ELSE <<ToUpperCase(w[1])>> \o Tail(w)

RECURSIVE Flat(_)
\* Array.prototype.flat of a list of lists.
Flat(ss) == IF ss = <<>> THEN <<>> ELSE Head(ss) \o Flat(Tail(ss))

\* The fields of a type in declared order that are lists and not reserved.
ArrayFields(type) ==
    SelectSeq(type.fields,
              LAMBDA f : f.isList /\ f.name \notin RESERVED_FIELD_NAMES)

\* generateQueryType: the query fields of one type, in order.
QueryFields(type) ==
    << [name |-> Spell("get") \o Spell(type.name), args |-> <<Spell("id")>>],
       [name |-> Spell("get") \o Spell(type.name) \o Spell("s"),
        args |-> <<Spell("filter")>>] >>

\* The add/remove mutation fields of a list field, named after the singular
\* of the field, with the item argument named <singular>Id.
ArrayMutationsSingular(type, f) ==
    LET w == Spell(f.name)
        singular == IF w # <<>> /\ w[Len(w)] = "s" THEN SubSeq(w, 1, Len(w) - 1)
                    ELSE w
    IN  << [name |-> Spell("add") \o Spell(type.name) \o Capitalized(singular),
            args |-> <<Spell("id"), singular \o Spell("Id")>>],
           [name |-> Spell("remove") \o Spell(type.name) \o Capitalized(singular),
            args |-> <<Spell("id"), singular \o Spell("Id")>>] >>

\* generateMutationType: the add/remove mutation fields of a list field.
ArrayMutations(type, f) ==
    << [name |-> Spell("add") \o Spell(type.name) \o Capitalized(Spell(f.name)),
        args |-> <<Spell("id"), Spell("itemId")>>],
       [name |-> Spell("remove") \o Spell(type.name) \o Capitalized(Spell(f.name)),
        args |-> <<Spell("id"), Spell("itemId")>>] >>

\* generateMutationType: the mutation fields of one type, in order.
MutationFields(type) ==
    LET af == ArrayFields(type)
    IN  << [name |-> Spell("create") \o Spell(type.name), args |-> <<Spell("input")>>],
           [name |-> Spell("update") \o Spell(type.name),
            args |-> <<Spell("id"), Spell("input")>>],
           [name |-> Spell("delete") \o Spell(type.name), args |-> <<Spell("id")>>] >>
        \o Flat([i \in 1..Len(af) |-> ArrayMutations(type, af[i])])

\* generateResolvers: the names the resolvers of one type are registered
\* under, in the order of the object keys.
ResolverNames(type) ==
    LET af == ArrayFields(type)
    IN  [Query |-> << Spell("get") \o Spell(type.name),
                      Spell("get") \o Spell(type.name) \o Spell("s") >>,
         Mutation |->
            << Spell("create") \o Spell(type.name),
               Spell("update") \o Spell(type.name),
               Spell("delete") \o Spell(type.name) >>
            \o Flat([i \in 1..Len(af) |->
                      << Spell("add") \o Spell(type.name)
                             \o Capitalized(Spell(af[i].name)),
                         Spell("remove") \o Spell(type.name)
                             \o Capitalized(Spell(af[i].name)) >>])]

\* No schema generated yet.
NoSchema == [built |-> FALSE, from |-> <<>>, types |-> <<>>, inputs |-> <<>>,
             queries |-> <<>>,
             mutations |-> <<>>, resolvers |-> [Query |-> <<>>, Mutation |-> <<>>]]

\* DEFAULT_FIELDS, in the order of the array.
DEFAULT_FIELDS == FieldList(<<"id", "creator", "createdAt", "updatedAt">>)

\* One field of a compiled type: its name, named type and list arity.
CompiledField(field, type) ==
    [name |-> field.name, type |-> type, isList |-> field.isList]

\* generateType(type): allFields = [...DEFAULT_FIELDS, ...type.fields], for
\* every type.
GenerateType(type) ==
    LET allFields == DEFAULT_FIELDS \o type.fields
    IN  [name |-> type.name,
         fields |-> [n \in 1..Len(allFields) |->
                       CompiledField(allFields[n], allFields[n].type)]]

\* The named types generateInputType leaves as they are.
InputScalars == {"ID", "String", "Int", "Float", "Boolean", "Date"}

\* generateInputType(type): the fields outside RESERVED_FIELD_NAMES, those of
\* a type outside the list above turned to ID.
GenerateInputType(type) ==
    LET own == SelectSeq(type.fields,
                         LAMBDA f : f.name \notin RESERVED_FIELD_NAMES)
    IN  [name |-> <<type.name, "Input">>,
         fields |-> [n \in 1..Len(own) |->
                       CompiledField(own[n],
                                     IF own[n].type \in InputScalars
                                     THEN own[n].type ELSE "ID")]]

\* generateSchema(types).
GenerateSchema(types) ==
    [built |-> TRUE,
     from |-> types,
     types |-> [i \in 1..Len(types) |-> GenerateType(types[i])],
     inputs |-> [i \in 1..Len(types) |-> GenerateInputType(types[i])],
     queries |-> Flat([i \in 1..Len(types) |-> QueryFields(types[i])]),
     mutations |-> Flat([i \in 1..Len(types) |-> MutationFields(types[i])]),
     resolvers |->
        [Query |-> Flat([i \in 1..Len(types) |-> ResolverNames(types[i]).Query]),
         Mutation |-> Flat([i \in 1..Len(types) |-> ResolverNames(types[i]).Mutation])]]

\* The type lists generateSchema is called with: up to MaxTypes definitions
\* that createType accepts.
CompileFieldLists ==
    {f \in FieldListArgs : ValidateNoReservedFields(f) = {}}
        \cup {FieldList(<<"media">>), FieldList(<<"tags", "title", "media">>),
              FieldList(<<"meta", "tags">>)}
CompileTypes == [name : TypeNameArgs \cup {"User"}, fields : CompileFieldLists]
CompileTypeLists ==
    UNION { [1..n -> CompileTypes] : n \in 0..MaxTypes }

\* One call of generateSchema on the type list read from the registry.
GenerateSchemaCall ==
    /\ schema' = GenerateSchema(graphqlTypes)
    /\ UNCHANGED <<authVars, regVars, docVars, keyVars, verifyVars>>

(***************************************************************************)
(* getDynamicSchema: the schema a request is served by                     *)
(***************************************************************************)
\* The App type getDynamicSchema adds (its key fields).
AppType == [name |-> "App", fields |-> FieldList(<<"apiKey", "apiKeyExpiresAt">>)]

\* getDynamicSchema: addGraphQLType of the User and App types when
\* getGraphQLTypeByName finds none.
EnsureDefaultTypes(types) ==
    LET withUser == IF "User" \in TypeNames(types) THEN types
                    ELSE Append(types, UserType)
    IN  IF "App" \in TypeNames(withUser) THEN withUser
        ELSE Append(withUser, AppType)

\* The scalars the compiled type definitions declare or graphql builds in.
SchemaScalars == {"ID", "String", "Int", "Float", "Boolean", "Date", "JSON"}

\* The field types of a type list that name neither a scalar nor a type of
\* the list; createSchema throws 'Unknown type' for each.
UnknownTypes(types) ==
    UNION { {types[i].fields[j].type : j \in 1..Len(types[i].fields)} :
            i \in 1..Len(types) }
        \ (SchemaScalars \cup TypeNames(types))

\* createSchema refused the type definitions.
SchemaError(types) == [NoSchema EXCEPT !.from = types]

\* generateSchema and createSchema on the stored types.  What createSchema
\* makes of two definitions of one name is left open.
SchemaOutcomes(types) ==
    IF UnknownTypes(types) # {} THEN {SchemaError(types)}
    ELSE IF \E i, j \in 1..Len(types) : i # j /\ types[i].name = types[j].name
    THEN {SchemaError(types), GenerateSchema(types)}
    ELSE {GenerateSchema(types)}

\* getDynamicSchema(), called by the server for each request.
GetDynamicSchema ==
    /\ graphqlTypes' = EnsureDefaultTypes(graphqlTypes)
    /\ schema' \in SchemaOutcomes(graphqlTypes')
    /\ UNCHANGED <<typesNameIndex, uniqueIndexes, pc, req, res>>

\* getDynamicSchema() step by step, as one of several builds in progress:
\* getGraphQLTypeByName(name) for a default type.
SchemaBuildFind(p, name) ==
    /\ \/ name = "User" /\ pc[p] = "idle"
       \/ name = "App" /\ pc[p] = "findApp"
    /\ pc' = [pc EXCEPT ![p] =
                 IF name \in TypeNames(graphqlTypes)
                 THEN (IF name = "User" THEN "findApp" ELSE "load")
                 ELSE (IF name = "User" THEN "addUser" ELSE "addApp")]
    /\ req' = [req EXCEPT ![p] = [NoReq EXCEPT !.name = name]]
    /\ res' = [res EXCEPT ![p] = "pending"]
    /\ UNCHANGED <<graphqlTypes, typesNameIndex, uniqueIndexes, schema>>

\* addGraphQLType of the default type that was not found: insertOne, which
\* the unique index on name rejects when the name is stored by now; the
\* error leaves getDynamicSchema.
SchemaBuildAdd(p, type) ==
    /\ \/ type = UserType /\ pc[p] = "addUser"
       \/ type = AppType /\ pc[p] = "addApp"
    /\ IF typesNameIndex /\ type.name \in TypeNames(graphqlTypes)
       THEN /\ pc' = [pc EXCEPT ![p] = "done"]
            /\ res' = [res EXCEPT ![p] = "DuplicateKey"]
            /\ UNCHANGED graphqlTypes
       ELSE /\ graphqlTypes' = Append(graphqlTypes, type)
            /\ pc' = [pc EXCEPT ![p] = IF type = UserType THEN "findApp" ELSE "load"]
            /\ UNCHANGED res
    /\ UNCHANGED <<typesNameIndex, uniqueIndexes, req, schema>>

\* getGraphQLTypes(), generateSchema and createSchema.
SchemaBuildLoad(p) ==
    /\ pc[p] = "load"
    /\ schema' \in SchemaOutcomes(graphqlTypes)
    /\ pc' = [pc EXCEPT ![p] = "done"]
    /\ res' = [res EXCEPT ![p] = IF schema'.built THEN "schema" ELSE "SchemaError"]
    /\ UNCHANGED <<graphqlTypes, typesNameIndex, uniqueIndexes, req>>

\* The server takes one request at a time.
ServerProc == 1

\* A request that reaches its resolver: no other is being served, the default
\* types are stored and getDynamicSchema returned a schema.
ServedRequest ==
    /\ pc[ServerProc] = "idle"
    /\ EnsureDefaultTypes(graphqlTypes) = graphqlTypes
    /\ schema' \in SchemaOutcomes(graphqlTypes)
    /\ schema'.built

\* The schema of the request holds the generated operations of type T.
HasType(T) == T \in TypeNames(graphqlTypes)

\* A request for anything else: the schema is built, nothing more.
OtherRequest ==
    /\ pc[ServerProc] = "idle"
    /\ GetDynamicSchema
    /\ UNCHANGED <<authVars, docVars, keyVars, verifyVars>>

(***************************************************************************)
(* AuthService: verification codes                                         *)
(***************************************************************************)
\* The most requestCode calls that store an attempt for one phone.
MaxCodes == 2

\* VERIFICATION_CODE_EXPIRY, in clock ticks.
CodeLifetime == 1

\* Phones validatePhone accepts, the codes generateVerificationCode may draw,
\* the names and project API keys the calls carry.
Phones == {"p1"}
CodeArgs == {"c1", "c2"}
NameArgs == {"n1", "n2"}
ProjectKeyArgs == {"pk", "zz"}

\* No document for the phone in verificationAttempts.  gen numbers the
\* requestCode write that stored the attempt.
NoAttempt == [code |-> Undefined, name |-> Undefined, expiresAt |-> 0, gen |-> 0]

\* A slot with no verifyPhoneAndCreateUser call in progress.
NoCall == [pc |-> "idle", phone |-> Undefined, code |-> Undefined,
           key |-> Undefined, attempt |-> NoAttempt, project |-> Undefined,
           existingUser |-> Undefined, ret |-> "none"]

VerifyInit ==
    /\ verificationAttempts = [ph \in Phones |-> NoAttempt]
    /\ calls = [p \in Procs |-> NoCall]
    /\ issued = [ph \in Phones |-> [g \in 1..(MaxCodes + 1) |-> 0]]

\* The write numbers used so far for a phone.
GenOf(ph) ==
    Cardinality({g \in 1..(MaxCodes + 1) :
        \/ verificationAttempts[ph].gen >= g
        \/ \E h \in g..(MaxCodes + 1) : issued[ph][h] > 0
        \/ \E p \in Procs : calls[p].phone = ph /\ calls[p].attempt.gen >= g})

\* requestCode(phone, name): the SMS is sent and the attempt is upserted
\* under the code just drawn.  When the send rejects, the error is rethrown
\* and nothing is stored.
RequestCode(phone, name, code) ==
    /\ GenOf(phone) < MaxCodes
    /\ verificationAttempts' =
           [verificationAttempts EXCEPT ![phone] =
               [code |-> code, name |-> name, expiresAt |-> now + CodeLifetime,
                gen |-> GenOf(phone) + 1]]
    /\ UNCHANGED <<calls, issued, docs, nextId>>

\* The TTL index on expiresAt: the store removes an attempt some time after
\* it expired.
ExpireAttempt(phone) ==
    /\ verificationAttempts[phone] # NoAttempt
    /\ verificationAttempts[phone].expiresAt <= now
    /\ verificationAttempts' = [verificationAttempts EXCEPT ![phone] = NoAttempt]
    /\ UNCHANGED <<calls, issued, docs, nextId>>

\* verifyPhoneAndCreateUser(phone, code, ProjectApiKey), up to the first
\* store answer: findOne({phone}) on the attempts; null when there is none or
\* its code differs.
VerifyFindAttempt(p, phone, code, key) ==
    LET attempt == verificationAttempts[phone]
    IN  /\ calls[p].pc = "idle"
        /\ calls' = [calls EXCEPT ![p] =
               IF attempt = NoAttempt \/ attempt.code # code
               THEN [NoCall EXCEPT !.pc = "done", !.phone = phone,
                                   !.code = code, !.key = key, !.ret = "null"]
               ELSE [NoCall EXCEPT !.pc = "project", !.phone = phone,
                                   !.code = code, !.key = key,
                                   !.attempt = attempt]]
        /\ UNCHANGED <<verificationAttempts, issued, docs, nextId>>

\* findOne on projects by apiKey with apiKeyExpiresAt > now; without one the
\* error thrown is caught and null returned.
VerifyFindProject(p) ==
    LET found == {q \in projects : /\ q.apiKey = calls[p].key
                                   /\ q.apiKeyExpiresAt > now}
    IN  /\ calls[p].pc = "project"
        /\ calls' = [calls EXCEPT ![p] =
               IF found = {} THEN [@ EXCEPT !.pc = "done", !.ret = "null"]
               ELSE [@ EXCEPT !.pc = "user",
                              !.project = (CHOOSE q \in found : TRUE)._id]]
        /\ UNCHANGED <<verificationAttempts, issued, docs, nextId>>

\* findOne({phone}) on users.
VerifyFindUser(p) ==
    LET found == {u \in docs["users"] : u.phone = calls[p].phone}
    IN  /\ calls[p].pc = "user"
        /\ calls' = [calls EXCEPT ![p] =
               [@ EXCEPT !.pc = "write",
                         !.existingUser = IF found = {} THEN Undefined
                                          ELSE (CHOOSE u \in found : TRUE)._id]]
        /\ UNCHANGED <<verificationAttempts, issued, docs, nextId>>

\* The user record: updateOne of the name of the user found when it differs
\* from the attempt's, else insertOne({name, phone, createdAt}) under the
\* unique index on phone; a rejected insert is caught and null returned.
VerifyWriteUser(p) ==
    LET c == calls[p]
        taken == \E u \in docs["users"] : u.phone = c.phone
        newId == DocIdSeq[nextId + 1]
        newUser == [k \in DocKeys |->
                      CASE k = "_id" -> newId
                        [] k = "name" -> c.attempt.name
                        [] k = "phone" -> c.phone
                        [] k = "createdAt" -> now
                        [] OTHER -> Absent(k)]
    IN  /\ c.pc = "write"
        /\ IF c.existingUser # Undefined
           THEN /\ docs' = [docs EXCEPT !["users"] =
                             {IF u._id = c.existingUser
                              THEN [u EXCEPT !.name = c.attempt.name] ELSE u :
                                 u \in @}]
                /\ calls' = [calls EXCEPT ![p].pc = "delete"]
                /\ UNCHANGED nextId
           ELSE IF taken
           THEN /\ calls' = [calls EXCEPT ![p] =
                                [@ EXCEPT !.pc = "done", !.ret = "null"]]
                /\ UNCHANGED <<docs, nextId>>
           ELSE /\ nextId < Len(DocIdSeq)
                /\ docs' = [docs EXCEPT !["users"] = @ \cup {newUser}]
                /\ nextId' = nextId + 1
                /\ calls' = [calls EXCEPT ![p] =
                                [@ EXCEPT !.pc = "delete",
                                          !.existingUser = newId]]
        /\ UNCHANGED <<verificationAttempts, issued>>

\* deleteOne({phone}) on the attempts, then return generateToken(userId,
\* project._id).
VerifyDeleteAttempt(p) ==
    LET c == calls[p]
    IN  /\ c.pc = "delete"
        /\ verificationAttempts' =
               [verificationAttempts EXCEPT ![c.phone] = NoAttempt]
        /\ calls' = [calls EXCEPT ![p] = [@ EXCEPT !.pc = "done", !.ret = "token"]]
        /\ issued' = [issued EXCEPT ![c.phone][c.attempt.gen] = @ + 1]
        /\ UNCHANGED <<docs, nextId>>

\* The resolver returns; the slot takes the next call.
VerifyReturn(p) ==
    /\ calls[p].pc = "done"
    /\ calls' = [calls EXCEPT ![p] = NoCall]
    /\ UNCHANGED <<verificationAttempts, issued, docs, nextId>>

(***************************************************************************)
(* Specifications                                                          *)
(***************************************************************************)
AuthInit ==
    /\ rules = DefaultRules
    /\ lastCheck = NoCheck
    /\ lastBuild = NoBuild

RegInit ==
    /\ graphqlTypes = <<>>
    /\ typesNameIndex = FALSE
    /\ uniqueIndexes = {}
    /\ pc = [p \in Procs |-> "idle"]
    /\ req = [p \in Procs |-> NoReq]
    /\ res = [p \in Procs |-> "none"]
    /\ schema = NoSchema

DocInit ==
    /\ docs = [c \in Collections |->
                 IF c = "users" THEN {UserDoc("u1", "n0"), UserDoc("u2", "n0")}
                 ELSE {}]
    /\ nextId = 0
    /\ now = 1
    /\ lastOp = NoOp
    /\ KeyInit
    /\ VerifyInit

\* The rule store under createRule/updateRule/deleteRule, with permission
\* checks against it.
InitRules ==
    /\ rules = DefaultRules
    /\ lastCheck \in FewRequests
    /\ lastBuild = NoBuild
    /\ RegInit /\ DocInit
RulesFrame == UNCHANGED <<regVars, docVars, compVars, keyVars, verifyVars>>
NextRules ==
    \/ \E r \in RuleInputs : CreateRule(r) /\ RulesFrame
    \/ \E n \in RuleNameArgs, b \in BOOLEAN : UpdateRule(n, b) /\ RulesFrame
    \/ \E n \in RuleNameArgs : DeleteRule(n) /\ RulesFrame
    \/ CheckPermissionCall /\ RulesFrame
SpecRules == InitRules /\ [][NextRules]_vars

\* The rule store under createRule/updateRule/deleteRule, with capability
\* sets built from it for a principal and for null.
BuildUsers == {NoUser, AbilityOwner}
BuildActions == {"manage", "update"}
BuildSubjects == {"Post"}
InitBuild == AuthInit /\ RegInit /\ DocInit
NextBuild ==
    \/ \E r \in BuildRuleInputs : CreateRule(r) /\ RulesFrame
    \/ \E n \in RuleNameArgs, b \in BOOLEAN : UpdateRule(n, b) /\ RulesFrame
    \/ \E n \in RuleNameArgs : DeleteRule(n) /\ RulesFrame
    \/ \E u \in BuildUsers, a \in BuildActions, t \in BuildSubjects :
          BuildDynamicAbilityCall(u, a, t) /\ RulesFrame
SpecBuild == InitBuild /\ [][NextBuild]_vars

\* checkPermission as a function of its arguments, the rule store as seeded.
InitCheck ==
    /\ rules = DefaultRules
    /\ lastCheck \in CheckRequests
    /\ lastBuild = NoBuild
    /\ RegInit /\ DocInit
NextCheck == CheckPermissionCall /\ RulesFrame
SpecCheck == InitCheck /\ [][NextCheck]_vars

\* The type registry under concurrent createType requests.
InitRegistry == AuthInit /\ RegInit /\ DocInit
RegistryFrame == UNCHANGED <<authVars, docVars, compVars, keyVars, verifyVars>>
NextRegistry ==
    \/ Initialize /\ RegistryFrame
    \/ \E p \in Procs, u \in Callers, n \in TypeNameArgs, f \in FieldListArgs :
             CreateTypeStart(p, u, n, f) /\ RegistryFrame
    \/ \E p \in Procs : AddGraphQLTypeInsert(p) /\ RegistryFrame
    \/ \E p \in Procs : AddGraphQLTypeIndexes(p) /\ RegistryFrame
    \/ \E p \in Procs : Respond(p) /\ RegistryFrame
SpecRegistry == InitRegistry /\ [][NextRegistry]_vars

\* createFieldOnType requests on a stored Post type, served concurrently.
StoredPostType == [name |-> "Post", fields |-> FieldList(<<"title">>)]
NewFieldArgs == {"slug", "body", "id", "updatedAt"}
InitFields ==
    /\ AuthInit /\ DocInit
    /\ graphqlTypes = <<StoredPostType>>
    /\ typesNameIndex = FALSE
    /\ uniqueIndexes = {}
    /\ pc = [p \in Procs |-> "idle"]
    /\ req = [p \in Procs |-> NoReq]
    /\ res = [p \in Procs |-> "none"]
    /\ schema = NoSchema
NextFields ==
    \/ \E p \in Procs, u \in Callers, n \in TypeNameArgs, f \in NewFieldArgs :
            CreateFieldOnTypeStart(p, u, n, FieldDef(f)) /\ RegistryFrame
    \/ \E p \in Procs : UpdateGraphQLTypeSet(p) /\ RegistryFrame
    \/ \E p \in Procs : UpdateGraphQLTypeIndexes(p) /\ RegistryFrame
    \/ \E p \in Procs : Respond(p) /\ RegistryFrame
SpecFields == InitFields /\ [][NextFields]_vars

\* The generated operations of the compiled schema over the document store.
\* The registry holds the User type and a Post type added by createType, with
\* the index addGraphQLType made for Post's unique field.
InitDispatch ==
    /\ AuthInit
    /\ graphqlTypes = DispatchTypes
    /\ typesNameIndex = FALSE
    /\ uniqueIndexes = {<<LowerCase("Post"), "slug">>}
    /\ pc = [p \in Procs |-> "idle"]
    /\ req = [p \in Procs |-> NoReq]
    /\ res = [p \in Procs |-> "none"]
    /\ schema = NoSchema
    /\ DocInit
DispatchFrame == UNCHANGED <<authVars, regVars, compVars, keyVars, verifyVars>>
NextDispatch ==
    \/ Tick /\ DispatchFrame
    \/ \E tok \in Tokens, T \in QueryTypes, id \in IdArgs \cup {Undefined} :
            \E ua \in SUBSET UniqueFields(TypeByName(graphqlTypes, T)) :
                GetT(tok, T, id, ua) /\ DispatchFrame
    \/ \E tok \in Tokens, T \in QueryTypes, f \in Filters : GetTs(tok, T, f) /\ DispatchFrame
    \/ \E tok \in Tokens, T \in QueryTypes :
            \E input \in CreateInputs(T) : CreateT(tok, T, input) /\ DispatchFrame
    \/ \E tok \in Tokens, T \in MutableTypes, id \in IdArgs,
             input \in UpdateInputs : UpdateT(tok, T, id, input) /\ DispatchFrame
    \/ \E tok \in Tokens, T \in MutableTypes, id \in IdArgs : DeleteT(tok, T, id) /\ DispatchFrame
    \/ \E tok \in Tokens, T \in MutableTypes, id \in IdArgs, item \in ItemArgs :
            \E f \in ListFields(TypeByName(graphqlTypes, T)) :
                AddTField(tok, T, f, id, item) /\ DispatchFrame
    \/ \E tok \in Tokens, T \in MutableTypes, id \in IdArgs, item \in ItemArgs :
            \E f \in ListFields(TypeByName(graphqlTypes, T)) :
                RemoveTField(tok, T, f, id, item) /\ DispatchFrame
SpecDispatch == InitDispatch /\ [][NextDispatch]_vars

\* The list mutations of a Post type with a list of references (tags) and a
\* list of strings (media), on one stored post.
ListsPostType == [name |-> "Post", fields |-> FieldList(<<"tags", "media">>)]
ListIdArgs == {"a1", "a2"}
ListItemArgs == {"g1", "g2", "xyz"}
InitLists ==
    /\ AuthInit
    /\ graphqlTypes = <<UserType, ListsPostType>>
    /\ typesNameIndex = FALSE
    /\ uniqueIndexes = {}
    /\ pc = [p \in Procs |-> "idle"]
    /\ req = [p \in Procs |-> NoReq]
    /\ res = [p \in Procs |-> "none"]
    /\ schema = NoSchema
    /\ docs = [c \in Collections |->
                 IF c = "users" THEN {UserDoc("u1", "n0"), UserDoc("u2", "n0")}
                 ELSE {NewDoc(<<>>, "a1", "u1", 1)}]
    /\ nextId = 1
    /\ now = 1
    /\ lastOp = NoOp
    /\ KeyInit
    /\ VerifyInit
NextLists ==
    \/ Tick /\ DispatchFrame
    \/ \E tok \in Tokens, id \in ListIdArgs, item \in ListItemArgs :
            \E f \in ListFields(ListsPostType) :
                AddTField(tok, "Post", f, id, item) /\ DispatchFrame
    \/ \E tok \in Tokens, id \in ListIdArgs, item \in ListItemArgs :
            \E f \in ListFields(ListsPostType) :
                RemoveTField(tok, "Post", f, id, item) /\ DispatchFrame
SpecLists == InitLists /\ [][NextLists]_vars

\* Schema builds for requests served concurrently, on a registry that may or
\* may not have its index on name.
BuildsFrame == UNCHANGED <<authVars, docVars, keyVars, verifyVars>>
NextBuilds ==
    \/ Initialize /\ RegistryFrame
    \/ \E p \in Procs, n \in DefaultTypeNames : SchemaBuildFind(p, n) /\ BuildsFrame
    \/ \E p \in Procs, t \in {UserType, AppType} : SchemaBuildAdd(p, t) /\ BuildsFrame
    \/ \E p \in Procs : SchemaBuildLoad(p) /\ BuildsFrame
    \/ \E p \in Procs : Respond(p) /\ RegistryFrame
SpecBuilds == InitRegistry /\ [][NextBuilds]_vars

\* Phone verification: requestCode and concurrently served
\* verifyPhoneAndCreateUser calls.
VerifyFrame == UNCHANGED <<authVars, regVars, compVars, keyVars, now, lastOp>>
NextVerify ==
    \/ Tick /\ UNCHANGED <<authVars, regVars, compVars, keyVars, verifyVars>>
    \/ \E ph \in Phones, n \in NameArgs, c \in CodeArgs :
            RequestCode(ph, n, c) /\ VerifyFrame
    \/ \E ph \in Phones : ExpireAttempt(ph) /\ VerifyFrame
    \/ \E p \in Procs, ph \in Phones, c \in CodeArgs, k \in ProjectKeyArgs :
            VerifyFindAttempt(p, ph, c, k) /\ VerifyFrame
    \/ \E p \in Procs : VerifyFindProject(p) /\ VerifyFrame
    \/ \E p \in Procs : VerifyFindUser(p) /\ VerifyFrame
    \/ \E p \in Procs : VerifyWriteUser(p) /\ VerifyFrame
    \/ \E p \in Procs : VerifyDeleteAttempt(p) /\ VerifyFrame
    \/ \E p \in Procs : VerifyReturn(p) /\ VerifyFrame
InitVerify == AuthInit /\ RegInit /\ DocInit
SpecVerify == InitVerify /\ [][NextVerify]_vars

\* generateSchema as a function of the type list.
InitCompile ==
    /\ AuthInit /\ DocInit
    /\ graphqlTypes \in CompileTypeLists
    /\ typesNameIndex = FALSE
    /\ uniqueIndexes = {}
    /\ pc = [p \in Procs |-> "idle"]
    /\ req = [p \in Procs |-> NoReq]
    /\ res = [p \in Procs |-> "none"]
    /\ schema = NoSchema
NextCompile == GenerateSchemaCall
SpecCompile == InitCompile /\ [][NextCompile]_vars

\* The server: the type-management operations, one request at a time, and
\* the requests for generated mutations, each served by getDynamicSchema.
ServerTokens == {NoToken, [userId |-> "u1", projectId |-> "P"]}
ServerIds == {"a1", "xyz"}
ServerFieldLists == {FieldList(<<"slug", "tags">>), FieldList(<<"id", "title">>)}
ServerFieldArgs == {"id", "title"}
InitServer == AuthInit /\ RegInit /\ DocInit
ServerFrame == UNCHANGED <<authVars, docVars, keyVars, verifyVars>>
NextServer ==
    \/ /\ ServedRequest
       /\ \E u \in Callers, n \in TypeNameArgs, f \in ServerFieldLists :
              CreateTypeStart(ServerProc, u, n, f)
       /\ ServerFrame
    \/ AddGraphQLTypeInsert(ServerProc) /\ UNCHANGED compVars /\ ServerFrame
    \/ AddGraphQLTypeIndexes(ServerProc) /\ UNCHANGED compVars /\ ServerFrame
    \/ /\ ServedRequest
       /\ \E u \in Callers, n \in TypeNameArgs, f \in ServerFieldArgs :
              CreateFieldOnTypeStart(ServerProc, u, n, FieldDef(f))
       /\ ServerFrame
    \/ UpdateGraphQLTypeSet(ServerProc) /\ UNCHANGED compVars /\ ServerFrame
    \/ UpdateGraphQLTypeIndexes(ServerProc) /\ UNCHANGED compVars /\ ServerFrame
    \/ Respond(ServerProc) /\ UNCHANGED compVars /\ ServerFrame
    \/ OtherRequest
    \/ /\ \E T \in MutableTypes : HasType(T)
       /\ ServedRequest
       /\ \E tok \in ServerTokens, T \in MutableTypes :
              HasType(T) /\ \E input \in CreateInputs(T) : CreateT(tok, T, input)
       /\ UNCHANGED <<authVars, regVars, keyVars, verifyVars>>
    \/ /\ \E T \in MutableTypes : HasType(T)
       /\ ServedRequest
       /\ \E tok \in ServerTokens, T \in MutableTypes, id \in ServerIds,
                input \in UpdateInputs :
              HasType(T) /\ UpdateT(tok, T, id, input)
       /\ UNCHANGED <<authVars, regVars, keyVars, verifyVars>>
    \/ /\ \E T \in MutableTypes : HasType(T)
       /\ ServedRequest
       /\ \E tok \in ServerTokens, T \in MutableTypes, id \in ServerIds :
              HasType(T) /\ DeleteT(tok, T, id)
       /\ UNCHANGED <<authVars, regVars, keyVars, verifyVars>>
    \/ /\ \E T \in MutableTypes : HasType(T)
       /\ ServedRequest
       /\ \E tok \in ServerTokens, T \in MutableTypes, id \in ServerIds,
                item \in ItemArgs :
              /\ HasType(T)
              /\ \E f \in ListFields(TypeByName(graphqlTypes, T)) :
                     AddTField(tok, T, f, id, item)
       /\ UNCHANGED <<authVars, regVars, keyVars, verifyVars>>
    \/ /\ \E T \in MutableTypes : HasType(T)
       /\ ServedRequest
       /\ \E tok \in ServerTokens, T \in MutableTypes, id \in ServerIds,
                item \in ItemArgs :
              /\ HasType(T)
              /\ \E f \in ListFields(TypeByName(graphqlTypes, T)) :
                     RemoveTField(tok, T, f, id, item)
       /\ UNCHANGED <<authVars, regVars, keyVars, verifyVars>>
SpecServer == InitServer /\ [][NextServer]_vars

\* Type management alone: createType and createFieldOnType, one request at
\* a time, and the other requests, each served by getDynamicSchema.
NextTypes ==
    \/ /\ ServedRequest
       /\ \E u \in Callers, n \in TypeNameArgs, f \in FieldListArgs :
              CreateTypeStart(ServerProc, u, n, f)
       /\ ServerFrame
    \/ AddGraphQLTypeInsert(ServerProc) /\ UNCHANGED compVars /\ ServerFrame
    \/ AddGraphQLTypeIndexes(ServerProc) /\ UNCHANGED compVars /\ ServerFrame
    \/ /\ ServedRequest
       /\ \E u \in Callers, n \in TypeNameArgs, f \in FieldArgs :
              CreateFieldOnTypeStart(ServerProc, u, n, FieldDef(f))
       /\ ServerFrame
    \/ UpdateGraphQLTypeSet(ServerProc) /\ UNCHANGED compVars /\ ServerFrame
    \/ UpdateGraphQLTypeIndexes(ServerProc) /\ UNCHANGED compVars /\ ServerFrame
    \/ Respond(ServerProc) /\ UNCHANGED compVars /\ ServerFrame
    \/ OtherRequest
SpecTypes == InitServer /\ [][NextTypes]_vars

\* The API keys of the apps under generate and revoke, requests presenting
\* keys, and the clock.
KeysFrame == UNCHANGED <<authVars, regVars, compVars, docVars, verifyVars>>
NextKeys ==
    \/ Tick /\ UNCHANGED <<authVars, regVars, compVars, keyVars, verifyVars>>
    \/ \E u \in KeyCallers, a \in AppIdArgs : GenerateAppApiKey(u, a) /\ KeysFrame
    \/ \E u \in KeyCallers, a \in AppIdArgs : RevokeAppApiKey(u, a) /\ KeysFrame
    \/ \E k \in KeyArgs : ApiKeyRequest(k) /\ KeysFrame
SpecKeys == InitServer /\ [][NextKeys]_vars

(***************************************************************************)
(* Properties of the type registry                                         *)
(***************************************************************************)
ReservedRequest(p) ==
    /\ req[p].user # "null"
    /\ FieldNames(req[p].fields) \cap {"id", "creator", "createdAt", "updatedAt"} # {}

C4_OneDefinitionPerName ==
    /\ \A i, j \in 1..Len(graphqlTypes) :
          graphqlTypes[i].name = graphqlTypes[j].name => i = j
    /\ \A p, q \in Procs :
          (p # q /\ pc[p] = "done" /\ pc[q] = "done"
               /\ req[p].name = req[q].name
               /\ res[p] \in {"true", "DuplicateKey"}
               /\ res[q] \in {"true", "DuplicateKey"})
            => /\ {res[p], res[q]} = {"true", "DuplicateKey"}
               /\ Cardinality({i \in 1..Len(graphqlTypes) :
                                  graphqlTypes[i].name = req[p].name}) = 1

(***************************************************************************)
(* Properties of the permission check                                      *)
(***************************************************************************)
\* C6: a check made with the capability set built for a null principal
\* returns false, for every action and subject, with or without a resource,
\* whatever the rule store holds.
C6_NullPrincipalDenied ==
    (lastCheck.called /\ lastCheck.nullAbility)
        => (~lastCheck.coarse /\ ~lastCheck.result)

\* C6 witness: the rule store holds an active grant of manage on all, and a
\* manage check with a resource, on the capability set built from the store
\* for null, was refused.
C6_Witness ==
    /\ lastCheck.called /\ lastCheck.nullAbility
    /\ lastCheck.builder = "dynamic"
    /\ lastCheck.action = "manage"
    /\ lastCheck.resource # NoResource
    /\ \E i \in 1..Len(rules) :
          /\ rules[i].name \in RuleNames
          /\ rules[i].isActive /\ ~rules[i].inverted
    /\ ~lastCheck.result

\* C7: when the capability set grants the action, the subject is User, the
\* action is update, delete or manage and a resource and a principal are
\* given, the check returns true exactly when the resource's identifier
\* (_id, else id) equals the principal's.
C7_UserSelfOnly ==
    LET r == lastCheck.resource
        u == lastCheck.user
        rid == IF r._id # Undefined THEN r._id ELSE r.id
        uid == IF u._id # Undefined THEN u._id ELSE u.id
    IN  (/\ lastCheck.called /\ lastCheck.coarse
         /\ lastCheck.subject = "User"
         /\ lastCheck.action \in {"update", "delete", "manage"}
         /\ r # NoResource /\ u # NoUser)
            => (lastCheck.result <=> rid = uid)

\* C7 witness: an update of a User resource that carries only id, by the
\* principal of that identifier whose project differs from the resource's,
\* was allowed.
C7_Witness ==
    /\ lastCheck.called /\ lastCheck.coarse
    /\ lastCheck.subject = "User" /\ lastCheck.action = "update"
    /\ lastCheck.resource # NoResource /\ lastCheck.user # NoUser
    /\ lastCheck.resource._id = Undefined /\ lastCheck.resource.id = "u1"
    /\ lastCheck.user._id = "u1"
    /\ lastCheck.resource.ProjectId = "Q"
    /\ lastCheck.user.currentProjectId = "P"
    /\ lastCheck.result

(***************************************************************************)
(* Properties of the generated operations                                  *)
(***************************************************************************)
\* The action a generated mutation would have to be permitted.
PermissionAction(op) == CASE op = "create" -> "create"
                          [] op = "delete" -> "delete"
                          [] OTHER -> "update"

MutationOps == {"create", "update", "delete", "add", "remove"}

\* Whether checkPermission, on the capability set built from the rule store
\* for the caller, allows operation o on the record it targets in store.
Permitted(o, store) ==
    LET a == PermissionAction(o.op)
        target == {d \in store[CollectionName(o.typ)] : d._id = o.id}
        resource == IF target = {} THEN NoResource
                    ELSE AsResource(CHOOSE d \in target : TRUE)
    IN  \A sorted \in GetRules(rules) :
            CheckPermission(
                AbilityCan(BuildDynamicAbilityForUser(o.user, sorted), a, o.typ),
                a, o.typ, resource, o.user)

\* C1: every generated mutation of an authenticated principal is permission
\* checked before the store is written: when the check is negative the
\* operation fails with Forbidden and the store is unchanged.
C1_PermissionBeforeWrite ==
    [][ (/\ now' = now
         /\ lastOp'.op \in MutationOps
         /\ lastOp'.user # NoUser
         /\ ~Permitted(lastOp', docs))
            => (lastOp'.outcome = "Forbidden" /\ docs' = docs) ]_vars

\* C2: every operation invoked with no principal is rejected with
\* 'Authentication required' and makes no store access (requests the schema
\* itself turns down reach no operation).
C2_AuthenticationRequired ==
    (/\ lastOp.op # "none"
     /\ lastOp.user = NoUser
     /\ lastOp.outcome # "GraphQLError")
        => (lastOp.outcome = "AuthenticationRequired" /\ lastOp.accesses = 0)

\* C5: a principal whose active project is P never receives from a query, and
\* never changes or removes, a record whose project reference is another
\* project.
C5_TenantIsolation ==
    [][ (now' = now /\ lastOp'.user # NoUser)
            => LET P == lastOp'.user.currentProjectId
               IN  /\ lastOp'.op \in {"get", "getAll"}
                        => \A d \in lastOp'.retDocs : d.ProjectId \in {Undefined, P}
                   /\ \A c \in Collections : \A d \in docs[c] \ docs'[c] :
                        d.ProjectId \in {Undefined, P} ]_vars

\* C8: the record create<T> stores has creator = the caller's identifier
\* (none for the User type) and createdAt = updatedAt = the time of the call,
\* whatever the client sent for those fields.
C8_CreateStamps ==
    (lastOp.op = "create" /\ lastOp.outcome = "ok")
        => \E d \in docs[CollectionName(lastOp.typ)] :
              /\ d._id = lastOp.newId
              /\ d.creator = (IF lastOp.typ = "User" THEN Undefined
                              ELSE lastOp.user._id)
              /\ d.createdAt = lastOp.time
              /\ d.updatedAt = lastOp.time

\* C9: delete<T> with an identifier that matches no stored record returns
\* false, raises no error and leaves the collection unchanged; it returns
\* true only when exactly one record was removed.
C9_DeleteNoMatch ==
    [][ (now' = now /\ lastOp'.op = "delete" /\ lastOp'.user # NoUser)
            => LET c == CollectionName(lastOp'.typ)
                   matched == {d \in docs[c] : d._id = lastOp'.id}
               IN  /\ matched = {}
                        => /\ lastOp'.outcome = "ok"
                           /\ lastOp'.ret = "false"
                           /\ docs' = docs
                   /\ lastOp'.ret = "true"
                        => /\ docs'[c] \subseteq docs[c]
                           /\ Cardinality(docs[c] \ docs'[c]) = 1 ]_vars

\* C10: get<T> called by a principal with no id fails with a validation error, without a
\* store access, when zero or several unique-field arguments are given, and
\* with exactly one unique-field argument it returns the record that carries
\* that value in that field.
C10_GetByDiscriminator ==
    (lastOp.op = "get" /\ lastOp.id = Undefined /\ lastOp.user # NoUser)
        => LET hits == {d \in docs[CollectionName(lastOp.typ)] :
                           \E f \in lastOp.uniqueArgs : d[f] = UniqueArgValue}
           IN  IF Cardinality(lastOp.uniqueArgs) = 1
               THEN hits # {} => (lastOp.outcome = "ok" /\ lastOp.retDocs = hits)
               ELSE /\ lastOp.outcome \in {"ValidationError", "GraphQLError"}
                    /\ lastOp.accesses = 0

(***************************************************************************)
(* Properties of the generated schema                                      *)
(***************************************************************************)
Range(sq) == {sq[i] : i \in 1..Len(sq)}

\* C11: for every type T and every non-reserved list field f of T the schema
\* holds exactly the two mutations add<T><F> and remove<T><F>, F being f
\* without a trailing "s" and capitalized, each taking (id, <singular f>Id),
\* next to create/update/delete<T>, and a resolver is registered under each
\* of these names.
C11_ArrayMutationNames ==
    schema.built
        => LET types == schema.from
               expected ==
                   UNION { UNION { Range(ArrayMutationsSingular(types[i], f)) :
                                     f \in Range(ArrayFields(types[i])) } :
                           i \in 1..Len(types) }
               verbs == {"add", "remove"}
               listed == {m \in Range(schema.mutations) : m.name[1] \in verbs}
           IN  /\ listed = expected
               /\ {m.name : m \in expected} \subseteq Range(schema.resolvers.Mutation)

(***************************************************************************)
(* Properties of the server                                                *)
(***************************************************************************)
\* The errors of validation and of authorization the operations raise.
RequestErrors == {"AuthenticationRequired", "ValidationError", "TypeNotFound",
                  "BSONError", "GraphQLError", "Forbidden"}

Unresolved(fields, types) ==
    {fields[i].type : i \in 1..Len(fields)}
        \ (SchemaScalars \cup TypeNames(types) \cup {"User"})

\* C15: createType and createFieldOnType, called by an authenticated user with
\* a field whose type is neither a scalar, nor the name of a stored type
\* definition, nor User, fail with a validation error and store nothing.
C15_UnresolvedReferenceRejected ==
    [][ \A p \in Procs :
          (/\ pc[p] = "idle" /\ pc'[p] # "idle"
           /\ req'[p].user # "null"
           /\ Unresolved(req'[p].fields, graphqlTypes) # {})
              => /\ res'[p] \in RequestErrors
                 /\ graphqlTypes' = graphqlTypes
                 /\ pc'[p] = "done"
      ]_vars

\* C14: for every stored type T and every field of T flagged unique, once the
\* operation that declared it has returned, the collection create<T> writes
\* to (the lower-cased name with a trailing "s") has a unique index on the
\* field, and no two records of it hold the same value of the field.
C14_UniqueIndexOnCollection ==
    /\ (\A p \in Procs : pc[p] = "idle")
          => \A i \in 1..Len(graphqlTypes) :
                 \A f \in UniqueFields(graphqlTypes[i]) :
                     <<CollectionName(graphqlTypes[i].name), f>> \in uniqueIndexes
    /\ \A T \in MutableTypes :
          HasType(T) =>
              \A f \in UniqueFields(TypeByName(graphqlTypes, T)) :
                  \A d1, d2 \in docs[CollectionName(T)] :
                      (d1 # d2 /\ d1[f] # Undefined) => d1[f] # d2[f]

\* C16: every request served after a createType or createFieldOnType has
\* succeeded gets a schema built from all the type definitions stored at that
\* moment, holding the generated operations of each of them.
C16_SchemaFollowsTypes ==
    [][ schema' # schema
           => /\ schema'.built
              /\ schema'.from = graphqlTypes'
              /\ \A i \in 1..Len(graphqlTypes') :
                     Spell("create") \o Spell(graphqlTypes'[i].name)
                         \in Range(schema'.resolvers.Mutation)
      ]_vars

(***************************************************************************)
(* Properties of the API keys                                              *)
(***************************************************************************)
\* The keys that were issued to an app and are the key of no app any more:
\* revoked, or replaced by a newer key.
Retired(k) ==
    /\ \E i \in 1..nextKey : KeySeq[i] = k
    /\ \A a \in DOMAIN apps : apps[a].apiKey # k

C18_CoarseDenialForbidden ==
    (lastCheck.called /\ ~lastCheck.coarse)
        => /\ ~lastCheck.result
           /\ lastCheck.thrown =
                  <<"Forbidden: Cannot", lastCheck.action, lastCheck.subject>>
\* A check of a principal on a resource of its own project, which every
\* resource test would pass, was refused for lack of the coarse grant.
C18_Witness ==
    /\ lastCheck.called /\ ~lastCheck.coarse
    /\ lastCheck.subject = "Comment" /\ lastCheck.action = "read"
    /\ lastCheck.resource # NoResource /\ lastCheck.user # NoUser
    /\ lastCheck.resource.ProjectId = "P"
    /\ lastCheck.user.currentProjectId = "P"
    /\ lastCheck.thrown = <<"Forbidden: Cannot", "read", "Comment">>

\* C19: when the capability set grants the action on the subject and no
\* resource or no principal is given, checkPermission returns true, whatever
\* the action and the subject.
C19_NoResourceAllowed ==
    (/\ lastCheck.called /\ lastCheck.coarse
     /\ (lastCheck.resource = NoResource \/ lastCheck.user = NoUser))
        => lastCheck.result /\ lastCheck.thrown = NoError
\* A delete on User with a principal and no resource was allowed.
C19_Witness ==
    /\ lastCheck.called /\ lastCheck.coarse
    /\ lastCheck.subject = "User" /\ lastCheck.action = "delete"
    /\ lastCheck.resource = NoResource /\ lastCheck.user # NoUser
    /\ lastCheck.result

\* C20: when the capability set grants the action, the subject is Post, the
\* action is update, delete or manage and a resource and a principal are
\* given, checkPermission returns true exactly when the resource's creator
\* is the principal's identifier (_id, else id) and the resource's ProjectId
\* is the principal's currentProjectId.
C20_PostCreatorAndProject ==
    LET r == lastCheck.resource
        u == lastCheck.user
        uid == IF u._id # Undefined THEN u._id ELSE u.id
    IN  (/\ lastCheck.called /\ lastCheck.coarse
         /\ lastCheck.subject = "Post"
         /\ lastCheck.action \in {"update", "delete", "manage"}
         /\ r # NoResource /\ u # NoUser)
            => (lastCheck.result <=>
                    (r.creator = uid /\ r.ProjectId = u.currentProjectId))
\* An update of a Post by its creator working in another project was refused.
C20_Witness ==
    /\ lastCheck.called /\ lastCheck.coarse
    /\ lastCheck.subject = "Post" /\ lastCheck.action = "update"
    /\ lastCheck.resource # NoResource /\ lastCheck.user # NoUser
    /\ lastCheck.resource.creator = "u1" /\ lastCheck.user._id = "u1"
    /\ lastCheck.resource.ProjectId = "Q"
    /\ lastCheck.user.currentProjectId = "P"
    /\ ~lastCheck.result

\* The check reached the last branch of checkPermission: the coarse grant
\* holds, a resource and a principal are given, and the pair is none of
\* update/delete/manage on User, Project or Post.
GenericCheck ==
    /\ lastCheck.called /\ lastCheck.coarse
    /\ lastCheck.resource # NoResource /\ lastCheck.user # NoUser
    /\ ~(/\ lastCheck.subject \in {"User", "Project", "Post"}
         /\ lastCheck.action \in {"update", "delete", "manage"})

\* C21 as claimed: in the last branch, a resource with a ProjectId is allowed
\* only to a principal whose currentProjectId equals it, and a resource
\* without ProjectId is allowed.
C21_TenantOnlyIfEqual ==
    GenericCheck
        => /\ lastCheck.resource.ProjectId # Undefined
                => (lastCheck.result
                       => lastCheck.user.currentProjectId
                              = lastCheck.resource.ProjectId)
           /\ lastCheck.resource.ProjectId = Undefined => lastCheck.result

\* C21 amended: in the last branch the check is refused exactly when the
\* resource has a ProjectId, the principal has a currentProjectId, and the
\* two differ; a principal without currentProjectId is allowed.
C21_TenantCheckedWhenBothPresent ==
    GenericCheck
        => (lastCheck.result <=>
               ~(/\ lastCheck.resource.ProjectId # Undefined
                 /\ lastCheck.user.currentProjectId # Undefined
                 /\ lastCheck.resource.ProjectId
                        # lastCheck.user.currentProjectId))
\* A read of a Comment of project Q by a principal working in P was refused.
C21_Witness ==
    /\ GenericCheck
    /\ lastCheck.subject = "Comment" /\ lastCheck.action = "read"
    /\ lastCheck.resource.ProjectId = "Q"
    /\ lastCheck.user.currentProjectId = "P"
    /\ ~lastCheck.result

(***************************************************************************)
(* Properties of the capability-set build                                  *)
(***************************************************************************)
\* C22: every build for a non-null principal runs over exactly the rules
\* that are active in the store at that moment, each once, in non-increasing
\* priority, and registers one entry per such rule; a rule that is inactive
\* or was deleted is not among them.
C22_BuildUsesActiveRulesInOrder ==
    [][ (lastBuild' # lastBuild /\ lastBuild'.user # NoUser)
          => LET done == lastBuild'.processed
                 built == lastBuild'.ability
                 active == {i \in 1..Len(rules) : rules[i].isActive}
             IN  /\ Len(done) = Cardinality(active)
                 /\ \A i \in active : \E n \in 1..Len(done) : done[n] = rules[i]
                 /\ \A n \in 1..Len(done) :
                       \E i \in active : done[n] = rules[i]
                 /\ \A n \in 1..(Len(done) - 1) :
                       done[n].priority >= done[n + 1].priority
                 /\ Len(built) = Len(done)
                 /\ \A n \in 1..Len(done) :
                       /\ built[n].action = done[n].action
                       /\ built[n].subject = done[n].subject
                       /\ built[n].inverted = done[n].inverted ]_vars

\* C22 witness: with user-manage-self deactivated and a rule of priority 200
\* created, a build for a principal ran over five rules, the created one
\* first.
C22_Witness ==
    /\ lastBuild.called /\ lastBuild.user # NoUser
    /\ Len(lastBuild.processed) = 5
    /\ lastBuild.processed[1].name \in RuleNames
    /\ \A n \in 1..5 : lastBuild.processed[n].name # "user-manage-self"
    /\ \E i \in 1..Len(rules) :
          rules[i].name = "user-manage-self" /\ ~rules[i].isActive

\* C23: when the capability set built for a principal holds several rules
\* for the very action and subject asked about, ability.can is decided by the
\* one registered last: granted if it is a grant, denied if it is inverted.
C23_LastRegisteredDecides ==
    LET built == lastBuild.ability
        same == {n \in 1..Len(built) :
                    /\ built[n].action = lastBuild.action
                    /\ built[n].subject = lastBuild.subject}
        last == CHOOSE n \in same : \A m \in same : m <= n
    IN  (lastBuild.called /\ lastBuild.user # NoUser /\ Cardinality(same) >= 2)
            => (lastBuild.coarse <=> ~built[last].inverted)

(***************************************************************************)
(* Properties of the compiled types                                        *)
(***************************************************************************)
\* The names of a field sequence, in order.
NamesOf(fields) == [n \in 1..Len(fields) |-> fields[n].name]

\* C24: every compiled object type lists id, creator, createdAt, updatedAt
\* first, in that order and once each, then the type's own fields in declared
\* order; the compiled User type has no creator field.
C24_ReservedFieldsFirst ==
    schema.built =>
        \A i \in 1..Len(schema.from) :
            LET own == NamesOf(schema.from[i].fields)
                reserved == IF schema.from[i].name = "User"
                            THEN <<"id", "createdAt", "updatedAt">>
                            ELSE <<"id", "creator", "createdAt", "updatedAt">>
            IN  /\ schema.types[i].name = schema.from[i].name
                /\ NamesOf(schema.types[i].fields) = reserved \o own

\* C25: every compiled input type holds exactly the type's non-reserved
\* fields, in order; a field of type ID, String, Int, Float, Boolean, Date or
\* JSON keeps its type, a field of any other type gets ID, and a list field
\* stays a list field.
C25_InputTypeFields ==
    schema.built =>
        \A i \in 1..Len(schema.from) :
            LET own == SelectSeq(schema.from[i].fields,
                                 LAMBDA f : f.name \notin RESERVED_FIELD_NAMES)
                got == schema.inputs[i].fields
            IN  /\ NamesOf(got) = NamesOf(own)
                /\ \A n \in 1..Len(own) :
                      /\ got[n].isList = own[n].isList
                      /\ got[n].type =
                            IF own[n].type \in SchemaScalars
                            THEN own[n].type ELSE "ID"

(***************************************************************************)
(* Properties of update<T> and of the list mutations                       *)
(***************************************************************************)
\* C26: update<T> by a principal on an existing record leaves every field
\* outside the input and updatedAt as it was, creator and createdAt included,
\* and leaves every other record as it was; with an identifier that matches
\* no record it returns null and changes nothing.
C26_UpdateChangesOnlyInput ==
    [][ (now' = now /\ lastOp'.op = "update" /\ lastOp'.user # NoUser)
            => LET c == CollectionName(lastOp'.typ)
                   matched == {d \in docs[c] : d._id = lastOp'.id}
               IN  /\ matched = {}
                        => /\ lastOp'.outcome = "ok"
                           /\ lastOp'.ret = "null"
                           /\ docs' = docs
                   /\ \A d \in matched :
                        \E e \in docs'[c], input \in UpdateInputs :
                           /\ e._id = d._id
                           /\ e.creator = d.creator
                           /\ e.createdAt = d.createdAt
                           /\ \A k \in DocKeys \ (DOMAIN input \cup {"updatedAt"}) :
                                 e[k] = d[k]
                           /\ docs'[c] \ {e} = docs[c] \ {d}
                           /\ \A o \in Collections \ {c} : docs'[o] = docs[o] ]_vars

\* C27: every add<T><F> or remove<T><F> call by a principal on a stored
\* record sets updatedAt and leaves the list without duplicates; after an add
\* the item is in the list, after a remove it is not, the membership of
\* every other item and the other list are as before, and an add of an item
\* already present leaves the list as it was.
C27_ListAddRemove ==
    [][ (/\ now' = now /\ lastOp'.op \in {"add", "remove"}
         /\ lastOp'.user # NoUser
         /\ \E d \in docs["posts"] : d._id = lastOp'.id)
            => /\ lastOp'.outcome = "ok"
               /\ \A d \in {x \in docs["posts"] : x._id = lastOp'.id} :
                    \E e \in docs'["posts"] :
                       LET f == lastOp'.field
                           item == lastOp'.item
                       IN  /\ e._id = d._id
                           /\ e.updatedAt = now
                           /\ \A n, m \in 1..Len(e[f]) :
                                 e[f][n] = e[f][m] => n = m
                           /\ InSeq(item, e[f]) <=> lastOp'.op = "add"
                           /\ \A x \in ListItemArgs \ {item} :
                                 InSeq(x, e[f]) <=> InSeq(x, d[f])
                           /\ (lastOp'.op = "add" /\ InSeq(item, d[f]))
                                 => e[f] = d[f]
                           /\ \A k \in DocKeys \ {f, "updatedAt"} :
                                 e[k] = d[k] ]_vars

(***************************************************************************)
(* Properties of the registry under concurrent requests                    *)
(***************************************************************************)
\* C28: a stored type's field list only grows: in every step, under every
\* interleaving of createFieldOnType calls, each field of each stored type
\* is still a field of that type afterwards.
C28_FieldListOnlyGrows ==
    [][ \A i \in 1..Len(graphqlTypes) :
           \E j \in 1..Len(graphqlTypes') :
              /\ graphqlTypes'[j].name = graphqlTypes[i].name
              /\ FieldNames(graphqlTypes[i].fields)
                    \subseteq FieldNames(graphqlTypes'[j].fields) ]_vars

(***************************************************************************)
(* Properties of the verification codes                                    *)
(***************************************************************************)
\* C29: the attempt stored by one requestCode yields at most one token; when
\* a call returns a token the attempt of its phone is gone; and a call whose
\* code differs from the stored one returns null and leaves the attempts and
\* the users as they were.
C29_CodeYieldsOneToken ==
    [][ /\ \A ph \in Phones : \A g \in 1..(MaxCodes + 1) : issued'[ph][g] <= 1
        /\ \A p \in Procs :
              (calls[p].pc # "done" /\ calls'[p].pc = "done")
                 => /\ calls'[p].ret = "token"
                        => verificationAttempts'[calls'[p].phone] = NoAttempt
                    /\ (/\ calls[p].pc = "idle"
                        /\ verificationAttempts[calls'[p].phone].code
                              # calls'[p].code)
                        => /\ calls'[p].ret = "null"
                           /\ verificationAttempts' = verificationAttempts
                           /\ docs' = docs ]_vars

\* C30: the registry never holds two definitions of one name, the User and
\* App types that getDynamicSchema inserts included, and no schema build
\* fails, under every interleaving of concurrent builds.
C30_OneDefaultTypePerName ==
    /\ \A i, j \in 1..Len(graphqlTypes) :
          graphqlTypes[i].name = graphqlTypes[j].name => i = j
    /\ \A p \in Procs : res[p] \notin {"DuplicateKey", "SchemaError"}

====
